---- MODULE Spec2Model ----
(***************************************************************************)
(* Model of xcaddy's build orchestration: buildCommand.RunE (argument      *)
(* handling), Builder.Build, Builder.newEnvironment, environment.runCommand *)
(* and environment.Close; of rootCmd.RunE (plugin-development mode); and of *)
(* the functions splitWith, versionedModulePath, normalizeImportPath,       *)
(* parseGoListJson and newGoBuildCommand applied on their own; of the       *)
(* temporary directories of builds that run side by side; and of Main with  *)
(* trapSignals.                                                             *)
(*                                                                          *)
(* Go strings are sequences of one-character strings, so that prefix tests, *)
(* splitting and joining are computed as the code computes them.            *)
(***************************************************************************)
EXTENDS Integers, Sequences, FiniteSets, TLC

(***************************************************************************)
(* Bounds of the model.                                                    *)
(***************************************************************************)
MaxWith == 2
MaxReplaceArgs == 1
MaxEmbed == 1
MaxArgLen == 6
MaxReplaceList == 2
MaxModules == 3
\* names os.MkdirTemp can choose for a temporary directory
MaxDirs == 3
\* builds running concurrently in one process
MaxBuilds == 2
\* interrupt signals sent to the process
MaxInterrupts == 2
\* calls of Close on one environment
MaxCloses == 2

(***************************************************************************)
(* Program constants.                                                      *)
(***************************************************************************)
\* time.After(15 * time.Second) in runCommand, counted in seconds
GraceWindow == 15

(***************************************************************************)
(* String helpers (package strings, package path).                         *)
(***************************************************************************)
Digits == {"0", "1", "2", "3", "4", "5", "6", "7", "8", "9"}

DigitVal(c) ==
  CASE c = "0" -> 0 [] c = "1" -> 1 [] c = "2" -> 2 [] c = "3" -> 3
    [] c = "4" -> 4 [] c = "5" -> 5 [] c = "6" -> 6 [] c = "7" -> 7
    [] c = "8" -> 8 [] c = "9" -> 9 [] OTHER -> 0

DigitChar(n) ==
  CASE n = 0 -> "0" [] n = 1 -> "1" [] n = 2 -> "2" [] n = 3 -> "3"
    [] n = 4 -> "4" [] n = 5 -> "5" [] n = 6 -> "6" [] n = 7 -> "7"
    [] n = 8 -> "8" [] OTHER -> "9"

\* strings.HasPrefix
HasPrefix(s, p) ==
  /\ Len(p) <= Len(s)
  /\ \A i \in 1..Len(p) : s[i] = p[i]

\* strings.HasSuffix
HasSuffix(s, p) ==
  /\ Len(p) <= Len(s)
  /\ \A i \in 1..Len(p) : s[Len(s) - Len(p) + i] = p[i]

\* strings.TrimPrefix
TrimPrefix(s, p) == IF HasPrefix(s, p) THEN SubSeq(s, Len(p) + 1, Len(s)) ELSE s

\* strings.TrimSuffix
TrimSuffix(s, p) == IF HasSuffix(s, p) THEN SubSeq(s, 1, Len(s) - Len(p)) ELSE s

\* strings.Contains for a one-character separator
ContainsChar(s, c) == \E i \in 1..Len(s) : s[i] = c

\* strings.Index for a one-character separator; 0 when absent
IndexChar(s, c) ==
  IF ContainsChar(s, c)
  THEN CHOOSE i \in 1..Len(s) : s[i] = c /\ \A j \in 1..(i - 1) : s[j] # c
  ELSE 0

\* the two pieces of s around the separator at index i; s alone when i = 0
CutAt(s, i) ==
  IF i = 0 THEN <<s>>
  ELSE <<SubSeq(s, 1, i - 1), SubSeq(s, i + 1, Len(s))>>

\* strings.SplitN(s, c, 2)
SplitN2(s, c) == CutAt(s, IndexChar(s, c))

\* strings.Split(s, c)
RECURSIVE Split(_, _)
Split(s, c) ==
  IF ~ContainsChar(s, c) THEN <<s>>
  ELSE <<CutAt(s, IndexChar(s, c))[1]>> \o Split(CutAt(s, IndexChar(s, c))[2], c)

\* strings.Join(parts, c)
RECURSIVE Join(_, _)
Join(parts, c) ==
  IF Len(parts) = 0 THEN <<>>
  ELSE IF Len(parts) = 1 THEN parts[1]
  ELSE parts[1] \o <<c>> \o Join(Tail(parts), c)

AllDigits(s) == \A i \in 1..Len(s) : s[i] \in Digits

\* strconv.Atoi / strconv.ParseUint on a string of digits
RECURSIVE Atoi(_)
Atoi(s) ==
  IF Len(s) = 0 THEN 0
  ELSE 10 * Atoi(SubSeq(s, 1, Len(s) - 1)) + DigitVal(s[Len(s)])

\* fmt.Sprintf("%d", n) for n >= 0
RECURSIVE Itoa(_)
Itoa(n) == IF n < 10 THEN <<DigitChar(n)>> ELSE Itoa(n \div 10) \o <<DigitChar(n % 10)>>

\* path.Clean: the elements of the cleaned path, processed left to right
RECURSIVE CleanElems(_, _, _)
CleanElems(elems, out, rooted) ==
  IF Len(elems) = 0 THEN out
  ELSE LET e == Head(elems) IN
    IF e = <<>> \/ e = <<".">> THEN CleanElems(Tail(elems), out, rooted)
    ELSE IF e = <<".", ".">> THEN
      IF Len(out) > 0 /\ out[Len(out)] # <<".", ".">>
      THEN CleanElems(Tail(elems), SubSeq(out, 1, Len(out) - 1), rooted)
      ELSE IF rooted THEN CleanElems(Tail(elems), out, rooted)
      ELSE CleanElems(Tail(elems), Append(out, e), rooted)
    ELSE CleanElems(Tail(elems), Append(out, e), rooted)

\* path.Clean
PathClean(p) ==
  IF Len(p) = 0 THEN <<".">>
  ELSE LET rooted == p[1] = "/"
           body == Join(CleanElems(Split(p, "/"), <<>>, rooted), "/")
       IN IF rooted THEN <<"/">> \o body
          ELSE IF body = <<>> THEN <<".">> ELSE body

(***************************************************************************)
(* Dependency model (builder.go).                                          *)
(***************************************************************************)
\* const defaultCaddyModulePath = "github.com/caddyserver/caddy"
defaultCaddyModulePath ==
  <<"g", "i", "t", "h", "u", "b", ".", "c", "o", "m", "/", "c", "a", "d", "d", "y", "s", "e", "r", "v", "e", "r", "/", "c", "a", "d", "d", "y">>

\* Dependency.String: path, or path@version when a version is set
DependencyString(d) ==
  IF d.Version # <<>> THEN d.PackagePath \o <<"@">> \o d.Version ELSE d.PackagePath

\* ReplacementPath.Param: strings.Replace(string(r), " ", "@", 1)
Param(r) ==
  IF ContainsChar(r, " ")
  THEN CutAt(r, IndexChar(r, " "))[1] \o <<"@">> \o CutAt(r, IndexChar(r, " "))[2]
  ELSE r

\* ReplacementPath.String: string(r)
ReplacementString(r) == r

\* NewReplace(old, new)
NewReplace(old, new) == [Old |-> old, New |-> new]

\* semver.StrictNewVersion (Masterminds/semver v3) as called by
\* versionedModulePath: exactly three dot-separated numeric segments, none
\* empty, none with a leading zero; a pre-release or build-metadata suffix of
\* the third segment is cut off first.

\* the segments of v: the first two dots cut it
SemverParts(v) ==
  IF Len(v) = 0 THEN <<>>
  ELSE IF ~ContainsChar(v, ".") THEN <<v>>
  ELSE <<SplitN2(v, ".")[1]>> \o SplitN2(SplitN2(v, ".")[2], ".")

\* the patch number of the third segment: what precedes "+" and "-"
SemverPatch(seg) == SplitN2(SplitN2(seg, "+")[1], "-")[1]

\* a numeric segment: digits, not empty, no leading zero
SemverSegOK(seg) ==
  /\ Len(seg) > 0
  /\ AllDigits(seg)
  /\ ~(Len(seg) > 1 /\ seg[1] = "0")

\* the version made of the segments
SemverOf(parts) ==
  IF /\ Len(parts) = 3
     /\ SemverSegOK(parts[1])
     /\ SemverSegOK(parts[2])
     /\ SemverSegOK(SemverPatch(parts[3]))
  THEN [ok |-> TRUE, major |-> Atoi(parts[1])]
  ELSE [ok |-> FALSE, major |-> 0]

StrictNewVersion(v) == SemverOf(SemverParts(v))

\* the digits of the last path element when it is vN and not the whole path
TrailingVersion(modulePath, elems, last) ==
  IF /\ Len(elems) >= 2
     /\ Len(last) >= 2
     /\ last[1] = "v"
     /\ AllDigits(Tail(last))
     /\ Len(modulePath) - Len(last) - 1 >= 1
  THEN Tail(last) ELSE <<>>

\* the last element of a split path
LastElem(elems) == elems[Len(elems)]

\* moduleVersionRegexp = `.+/v(\d+)$`: the digits of the trailing /vN, or <<>>
ModuleVersionMatch(modulePath) ==
  TrailingVersion(modulePath, Split(modulePath, "/"),
                  LastElem(Split(modulePath, "/")))

\* mutant of VersionedPathOf: no major-version suffix is appended
VersionedPathOfMut(modulePath, moduleVersion, ver, digits) ==
  IF ~ver.ok THEN
    IF HasPrefix(moduleVersion, <<"v">>)
    THEN [path |-> <<>>, err |-> "semver"]
    ELSE [path |-> modulePath, err |-> "nil"]
  ELSE IF digits # <<>> /\ Atoi(digits) # ver.major
    THEN [path |-> <<>>, err |-> "diverge"]
    ELSE [path |-> PathClean(modulePath), err |-> "nil"]

\* versionedModulePath once the version is parsed (ver) and the path matched
\* against moduleVersionRegexp (digits)
VersionedPathOf(modulePath, moduleVersion, ver, digits) ==
  IF ~ver.ok THEN
    IF HasPrefix(moduleVersion, <<"v">>)
    THEN [path |-> <<>>, err |-> "semver"]
    ELSE [path |-> modulePath, err |-> "nil"]
  ELSE IF digits # <<>> THEN
    IF Atoi(digits) # ver.major
    THEN [path |-> <<>>, err |-> "diverge"]
    ELSE [path |-> PathClean(modulePath), err |-> "nil"]
  ELSE IF ver.major > 1
    THEN [path |-> PathClean(modulePath \o <<"/", "v">> \o Itoa(ver.major)),
          err |-> "nil"]
    ELSE [path |-> PathClean(modulePath), err |-> "nil"]

\* mutant of versionedModulePath: a version that does not parse is an error
\* whether or not it starts with "v"
versionedModulePathMut(modulePath, moduleVersion) ==
  IF moduleVersion = <<>> THEN [path |-> modulePath, err |-> "nil"]
  ELSE IF ~StrictNewVersion(TrimPrefix(moduleVersion, <<"v">>)).ok
  THEN [path |-> <<>>, err |-> "semver"]
  ELSE VersionedPathOf(modulePath, moduleVersion,
                       StrictNewVersion(TrimPrefix(moduleVersion, <<"v">>)),
                       ModuleVersionMatch(modulePath))

\* versionedModulePath(modulePath, moduleVersion) -> (path, err)
versionedModulePath(modulePath, moduleVersion) ==
  IF moduleVersion = <<>> THEN [path |-> modulePath, err |-> "nil"]
  ELSE VersionedPathOf(modulePath, moduleVersion,
                       StrictNewVersion(TrimPrefix(moduleVersion, <<"v">>)),
                       ModuleVersionMatch(modulePath))

(***************************************************************************)
(* Command-line argument handling (cmd/main.go, buildCommand.RunE).        *)
(***************************************************************************)
\* mutant of RequireModule: an empty module name is accepted
RequireModuleMut(module) == "nil"

\* if module == "" { err = fmt.Errorf("module name is required") }
RequireModule(module) ==
  IF module = <<>> THEN "module name is required" ELSE "nil"

\* mutant of splitWith: the version separator is looked for before the
\* replacement separator
splitWithMut(arg) ==
  IF ~ContainsChar(arg, "@") THEN
    [module |-> SplitN2(arg, "=")[1], version |-> <<>>,
     replace |-> IF ContainsChar(arg, "=") THEN SplitN2(arg, "=")[2] ELSE <<>>,
     err |-> RequireModule(SplitN2(arg, "=")[1])]
  ELSE
    [module |-> SplitN2(arg, "@")[1],
     version |-> SplitN2(SplitN2(arg, "@")[2], "=")[1],
     replace |-> IF ContainsChar(SplitN2(arg, "@")[2], "=")
                 THEN SplitN2(SplitN2(arg, "@")[2], "=")[2] ELSE <<>>,
     err |-> RequireModule(SplitN2(arg, "@")[1])]

\* splitWith(arg) -> (module, version, replace, err)
splitWith(arg) ==
  LET modules == SplitN2(arg, "=")
      replace0 == IF Len(modules) > 1 THEN modules[2] ELSE <<>>
      parts == SplitN2(modules[1], "@")
      module0 == parts[1]
      r == IF Len(parts) = 1 THEN
             LET parts2 == SplitN2(module0, "=") IN
             IF Len(parts2) > 1
             THEN [module |-> parts2[1], version |-> <<>>, replace |-> parts2[2]]
             ELSE [module |-> module0, version |-> <<>>, replace |-> replace0]
           ELSE
             LET version0 == parts[2]
                 parts2 == SplitN2(version0, "=") IN
             IF Len(parts2) > 1
             THEN [module |-> module0, version |-> parts2[1], replace |-> parts2[2]]
             ELSE [module |-> module0, version |-> version0, replace |-> replace0]
  IN [module |-> r.module, version |-> r.version, replace |-> r.replace,
      err |-> RequireModule(r.module)]

\* filepath.ToSlash on a host whose os.PathSeparator is separator
RECURSIVE ToSlash(_, _)
ToSlash(p, separator) ==
  IF Len(p) = 0 THEN <<>>
  ELSE <<IF Head(p) = separator THEN "/" ELSE Head(p)>> \o ToSlash(Tail(p), separator)

\* mutant of PathJoin: the elements are joined and not cleaned
PathJoinMut(a, c) == a \o <<"/">> \o c

\* path.Join(a, c): the non-empty elements joined with "/" and cleaned
PathJoin(a, c) ==
  IF a = <<>> /\ c = <<>> THEN <<>>
  ELSE IF a = <<>> THEN PathClean(c)
  ELSE IF c = <<>> THEN PathClean(a)
  ELSE PathClean(a \o <<"/">> \o c)

\* normalizeImportPath(currentModule, cwd, moduleDir) on a host whose
\* os.PathSeparator is separator
normalizeImportPath(currentModule, cwd, moduleDir, separator) ==
  PathJoin(currentModule, ToSlash(TrimPrefix(cwd, moduleDir), separator))

\* the working directory of the xcaddy process, used by filepath.Abs
Cwd == <<"/", "w">>

\* filepath.Abs on a host with '/' separators
FilepathAbs(p) ==
  IF Len(p) > 0 /\ p[1] = "/" THEN PathClean(p) ELSE PathClean(Cwd \o <<"/">> \o p)

\* filepath.IsAbs on a host with '/' separators
IsAbs(p) == Len(p) > 0 /\ p[1] = "/"

\* filepath.Join(a, c) on a host with '/' separators
FilepathJoin(a, c) == PathJoin(a, c)

\* parseGoListJson.  The output of `go list -m -json all` is the sequence
\* of the decoded Module values: [Path, Version, Main, Dir, Replace], where
\* Replace is <<>> (nil) or <<m>> for the module m it points to.

\* dst for a module that has a replacement, while moduleDir is as given
ReplaceTarget(dstPath, dstVersion, moduleDir) ==
  IF dstVersion # <<>> THEN dstPath \o <<"@">> \o dstVersion
  ELSE IF IsAbs(dstPath) THEN dstPath
  ELSE IF moduleDir # <<>> THEN FilepathJoin(moduleDir, dstPath)
  ELSE dstPath

\* the target is a relative path and moduleDir is not known yet
Unjoined(dstPath, dstVersion, moduleDir) ==
  dstVersion = <<>> /\ ~IsAbs(dstPath) /\ moduleDir = <<>>

\* the decoding loop: st holds currentModule, moduleDir, replacements and
\* unjoinedReplaces (indexes into replacements, counted from 1)
RECURSIVE DecodeLoop(_, _)
DecodeLoop(mods, st) ==
  IF Len(mods) = 0 THEN st
  ELSE IF Head(mods).Main THEN
    DecodeLoop(Tail(mods),
      [currentModule |-> Head(mods).Path,
       moduleDir |-> Head(mods).Dir,
       replacements |-> Append(st.replacements,
                               NewReplace(Head(mods).Path, Head(mods).Dir)),
       unjoinedReplaces |-> st.unjoinedReplaces])
  ELSE IF Head(mods).Replace = <<>> THEN DecodeLoop(Tail(mods), st)
  ELSE
    DecodeLoop(Tail(mods),
      [currentModule |-> st.currentModule,
       moduleDir |-> st.moduleDir,
       replacements |->
         Append(st.replacements,
                NewReplace(Head(mods).Path \o <<"@">> \o Head(mods).Version,
                           ReplaceTarget(Head(mods).Replace[1].Path,
                                         Head(mods).Replace[1].Version,
                                         st.moduleDir))),
       unjoinedReplaces |->
         IF Unjoined(Head(mods).Replace[1].Path, Head(mods).Replace[1].Version,
                     st.moduleDir)
         THEN Append(st.unjoinedReplaces, Len(st.replacements) + 1)
         ELSE st.unjoinedReplaces])

\* mutant of ResolveUnjoined: the deferred replacements are left as they are
ResolveUnjoinedMut(replacements, unjoinedReplaces, moduleDir) == replacements

\* the loop `for _, idx := range unjoinedReplaces`
ResolveUnjoined(replacements, unjoinedReplaces, moduleDir) ==
  [i \in 1..Len(replacements) |->
     IF \E k \in 1..Len(unjoinedReplaces) : unjoinedReplaces[k] = i
     THEN [replacements[i] EXCEPT !.New = FilepathJoin(moduleDir, replacements[i].New)]
     ELSE replacements[i]]

\* the results of parseGoListJson once the decoding loop has ended in st
ParseResult(st) ==
  [currentModule |-> st.currentModule,
   moduleDir |-> st.moduleDir,
   replacements |-> ResolveUnjoined(st.replacements, st.unjoinedReplaces,
                                    st.moduleDir),
   err |-> "nil"]

\* parseGoListJson(out) -> (currentModule, moduleDir, replacements, err)
parseGoListJson(mods) ==
  ParseResult(DecodeLoop(mods, [currentModule |-> <<>>, moduleDir |-> <<>>,
                                replacements |-> <<>>,
                                unjoinedReplaces |-> <<>>]))

\* handleReplace(orig, mod, ver, repl, &replacements): the new replacements
handleReplace(mod, ver, repl, replacements) ==
  IF repl # <<>> THEN
    LET repl2 == IF HasPrefix(repl, <<".">>) THEN FilepathAbs(repl) ELSE repl IN
    Append(replacements,
           NewReplace(DependencyString([PackagePath |-> mod, Version |-> ver]), repl2))
  ELSE replacements

\* the loop over the --with arguments in buildCommand.RunE
RECURSIVE WithLoop(_, _)
WithLoop(withArgs, acc) ==
  IF Len(withArgs) = 0 \/ acc.err # "nil" THEN acc
  ELSE LET sw == splitWith(Head(withArgs))
           mod == TrimSuffix(sw.module, <<"/">>)
       IN IF sw.err # "nil" THEN [acc EXCEPT !.err = sw.err]
          ELSE WithLoop(Tail(withArgs),
                 [plugins |-> Append(acc.plugins,
                                [PackagePath |-> mod, Version |-> sw.version]),
                  replacements |-> handleReplace(mod, sw.version, sw.replace,
                                                 acc.replacements),
                  err |-> "nil"])

\* the loop over the --replace arguments in buildCommand.RunE
RECURSIVE ReplaceLoop(_, _)
ReplaceLoop(replaceArgs, acc) ==
  IF Len(replaceArgs) = 0 \/ acc.err # "nil" THEN acc
  ELSE LET sw == splitWith(Head(replaceArgs)) IN
       IF sw.err # "nil" THEN [acc EXCEPT !.err = sw.err]
       ELSE ReplaceLoop(Tail(replaceArgs),
              [acc EXCEPT !.replacements =
                 handleReplace(sw.module, sw.version, sw.replace, acc.replacements)])

\* mutant of ParseArgs: the --replace arguments are handled like the --with
\* arguments
ParseArgsMut(withArgs, replaceArgs) ==
  WithLoop(replaceArgs,
    WithLoop(withArgs, [plugins |-> <<>>, replacements |-> <<>>, err |-> "nil"]))

\* plugins and replacements as buildCommand.RunE collects them
ParseArgs(withArgs, replaceArgs) ==
  ReplaceLoop(replaceArgs,
    WithLoop(withArgs, [plugins |-> <<>>, replacements |-> <<>>, err |-> "nil"]))

(***************************************************************************)
(* Construction of the go commands (environment.newCommand and the like)   *)
(* and of the compile command (Builder.Build).  cmd.Args is a sequence of  *)
(* strings.                                                                *)
(***************************************************************************)
\* utils.GetGo() with XCADDY_WHICH_GO unset
GetGo == <<"g", "o">>

\* strings.TrimSpace(flags) == "" for flags made of spaces and other
\* characters
AllSpaces(flags) == \A i \in 1..Len(flags) : flags[i] = " "

\* shlex.Split (google/shlex) on a string of spaces, single quotes and
\* ordinary characters: the tokenizer is before a token ("start"), inside
\* one ("word") or inside a quoted part of one ("quote"); the end of the
\* input inside a quoted part is an error
RECURSIVE ShlexScan(_, _, _, _)
ShlexScan(s, tok, state, out) ==
  IF Len(s) = 0 THEN
    IF state = "quote" THEN [ok |-> FALSE, toks |-> <<>>]
    ELSE IF state = "word" THEN [ok |-> TRUE, toks |-> Append(out, tok)]
    ELSE [ok |-> TRUE, toks |-> out]
  ELSE IF state = "quote" THEN
    IF Head(s) = "'" THEN ShlexScan(Tail(s), tok, "word", out)
    ELSE ShlexScan(Tail(s), Append(tok, Head(s)), "quote", out)
  ELSE IF Head(s) = "'" THEN ShlexScan(Tail(s), tok, "quote", out)
  ELSE IF Head(s) = " " THEN
    IF state = "word" THEN ShlexScan(Tail(s), <<>>, "start", Append(out, tok))
    ELSE ShlexScan(Tail(s), <<>>, "start", out)
  ELSE ShlexScan(Tail(s), Append(tok, Head(s)), "word", out)

ShlexSplit(flags) == ShlexScan(flags, <<>>, "start", <<>>)

\* the arguments parseAndAppendFlags leaves in cmd.Args: flags that are
\* blank or do not split leave them as they are
AppendFlags(args, flags, split) ==
  IF AllSpaces(flags) THEN args
  ELSE IF ~split.ok THEN args
  ELSE args \o split.toks

parseAndAppendFlags(args, flags) == AppendFlags(args, flags, ShlexSplit(flags))

\* cmd.Args of environment.newCommand(ctx, command, args...)
newCommand(command, args) == <<command>> \o args

\* cmd.Args of environment.newGoBuildCommand(ctx, args...)
newGoBuildCommand(buildFlags, args) ==
  parseAndAppendFlags(newCommand(GetGo, args), buildFlags)

\* Compile.CgoEnabled
CgoEnabled(cgo) == IF cgo THEN "1" ELSE "0"

\* mutant of RaceForcesCgo: the race detector leaves cgo as requested
RaceForcesCgoMut(raceDetector, cgo) == cgo

\* b.Compile.Cgo after `if b.RaceDetector && !b.Compile.Cgo { b.Compile.Cgo = true }`
RaceForcesCgo(raceDetector, cgo) == IF raceDetector /\ ~cgo THEN TRUE ELSE cgo

\* the arguments of the compile command
ArgBuild == <<"b", "u", "i", "l", "d">>
ArgO == <<"-", "o">>
ArgGcflags == <<"-", "g", "c", "f", "l", "a", "g", "s">>
ArgDebug == <<"a", "l", "l", "=", "-", "N", " ", "-", "l">>
ArgLdflags == <<"-", "l", "d", "f", "l", "a", "g", "s">>
ArgTrim == <<"-", "w", " ", "-", "s">>
ArgTrimpath == <<"-", "t", "r", "i", "m", "p", "a", "t", "h">>
ArgTags == <<"-", "t", "a", "g", "s">>
ArgNoTags ==
  <<"n", "o", "b", "a", "d", "g", "e", "r", ",", "n", "o", "m", "y", "s", "q", "l", ",", "n", "o", "p", "g", "x">>
ArgRace == <<"-", "r", "a", "c", "e">>

\* "-gcflags", "all=-N -l"
DebugFlags == <<ArgGcflags, ArgDebug>>

\* "-ldflags", "-w -s", "-trimpath", "-tags", "nobadger,nomysql,nopgx"
DefaultFlags == <<ArgLdflags, ArgTrim, ArgTrimpath, ArgTags, ArgNoTags>>

\* mutant of BuildModeFlags: the defaults are added whatever the build
\* flags are
BuildModeFlagsMut(debug, buildFlags) ==
  IF debug THEN DebugFlags ELSE DefaultFlags

\* lines 596-608 of Build: what the compile command gets for its build mode
BuildModeFlags(debug, buildFlags) ==
  IF debug THEN DebugFlags
  ELSE IF buildFlags = <<>> THEN DefaultFlags
  ELSE <<>>

\* lines 610-612 of Build
RaceFlags(raceDetector) == IF raceDetector THEN <<ArgRace>> ELSE <<>>

\* cmd.Args of the compile command (lines 593-612 of Build)
CompileArgs(bld, absOutputFile) ==
  newGoBuildCommand(bld.BuildFlags, <<ArgBuild, ArgO, absOutputFile>>)
    \o BuildModeFlags(bld.Debug, bld.BuildFlags)
    \o RaceFlags(bld.RaceDetector)

\* the customizations of cmd.Env of the compile command that depend on the
\* compile options (lines 580-584 of Build)
CompileEnv(bld) ==
  [CGO_ENABLED |-> CgoEnabled(RaceForcesCgo(bld.RaceDetector, bld.Cgo))]

(***************************************************************************)
(* Inputs of the model.                                                    *)
(***************************************************************************)
\* --with arguments
WithArgSet ==
  { <<"a", "/", "b">>,
    <<"c", "@", "v", "2", ".", "0", ".", "0", "=", "r">>,
    <<"a", "=", "r">> }

\* --replace arguments
ReplaceArgSet ==
  { <<"a", "=", ".", "/", "l">> }

\* core versions
CaddyVersionSet ==
  { <<"v", "2", ".", "0", ".", "1">>,
    <<"v", "3">> }

\* the plugin argument of a build that replaces module a and plugs in a
\* module whose path starts with the same characters
SiblingWithArgs ==
  { << <<"a", "b">> >> }

\* the plugin arguments of the callers that set TimeoutGet or TimeoutBuild
TimedWithArgs ==
  { << <<"a", "/", "b">>, <<"c", "@", "v", "2", ".", "0", ".", "0", "=", "r">> >> }

SeqsUpTo(S, n) == UNION { [1..k -> S] : k \in 0..n }

\* values of XCADDY_GO_BUILD_FLAGS (Builder.BuildFlags)
BuildFlagsSet ==
  { <<>>,
    <<" ">>,
    <<"-", "x">>,
    <<"-", "t", "r", "i", "m", "p", "a", "t", "h">> }

\* the compile options of a Builder: CGO_ENABLED=1, XCADDY_RACE_DETECTOR=1,
\* XCADDY_DEBUG=1, XCADDY_GO_BUILD_FLAGS
CompileOptions ==
  [Cgo : BOOLEAN, RaceDetector : BOOLEAN, Debug : BOOLEAN, BuildFlags : BuildFlagsSet]

\* none of them set
DefaultCompile ==
  [Cgo |-> FALSE, RaceDetector |-> FALSE, Debug |-> FALSE, BuildFlags |-> <<>>]

(***************************************************************************)
(* State.                                                                  *)
(*                                                                         *)
(* An error value is the sequence of its messages: <<>> is nil, <<"exit">> *)
(* a plain error, <<e, "cleanup">> the error e wrapped with the clean-up   *)
(* error ("%w; additionally, cleaning up folder: %v").                     *)
(***************************************************************************)
VARIABLES
  withArgs,     \* the --with arguments of the command line
  replaceArgs,  \* the --replace arguments of the command line
  outputFile,   \* the outputFile argument of Build
  b,            \* the Builder; b.Plugins is the slice shared with the caller
  pc,           \* position of the building goroutine
  ctxErr,       \* Err() of each context: caller (Main), build (TimeoutBuild), get (TimeoutGet)
  bldCtx,       \* the context the variable ctx of Build refers to
  envCtx,       \* the context the variable ctx of newEnvironment refers to
  tempFolder,   \* "none", "exists" or "removed"
  err,          \* the variable err declared at the top of newEnvironment
  caddyModulePath, \* the variable caddyModulePath of newEnvironment
  embedIdx,     \* index of the embed directory handled next
  plugIdx,      \* index of the plugin handled next by the pinning loop
  neRet,        \* results of newEnvironment: [env, err]
  buildRet,     \* result of Build
  closeCount,   \* number of calls of environment.Close
  rmFailed,     \* an os.RemoveAll of the temporary folder has failed
  rc,           \* position inside runCommand: "idle", "select", "grace"
  rcCtx,        \* the context runCommand and its command were given
  rcCmd,        \* the command runCommand is running
  rcRet,        \* the error runCommand returned last
  rcBranch,     \* the select case runCommand returned through
  proc,         \* the subprocess: "none", "running", "exited"
  waitErr,      \* the result of cmd.Wait()
  waiter,       \* the waiting goroutine: "none", "waiting" (in Wait), "sending", "done"
  killSent,     \* who called Process.Kill: "none", "context", "grace"
  elapsed,      \* seconds the grace timer has counted: 0 until it fires
  started,      \* the commands started so far, in order
  finished,     \* the commands whose subprocess has ended, in order
  mainGo,       \* the rendered main.go (buf of newEnvironment): its import lines
  fnName,       \* the function a unit run applies, "none" in a build run
  fnIn,         \* the arguments of that function
  fnOut,        \* its result, NoOut before the call
  devPc,        \* position of rootCmd.RunE, "none" when it is not what runs
  binOutput,    \* the binary in the current directory: "none", "exists",
                \* "removed", "undeletable" (os.Remove has failed)
  devRet,       \* the error rootCmd.RunE returned
  tmpDirs,      \* the temporary directories that exist: names made by os.MkdirTemp
  builds,       \* the environments of the builds running side by side
  mainPc,       \* position of Main: "none", "running", "returned", "exited"
  mainCtxErr,   \* Err() of the context Main makes with context.WithCancel
  trapPc,       \* position of trapSignals: "none", "select", "done"
  sig,          \* number of signals waiting in the channel sig (capacity 1)
  interrupts,   \* number of interrupt signals sent to the process
  cancelCalls   \* number of times trapSignals has called cancel

cfgVars == <<withArgs, replaceArgs, outputFile>>
envVars == <<tempFolder, err, caddyModulePath, mainGo, embedIdx, plugIdx, neRet, envCtx>>
devVars == <<devPc, binOutput, devRet>>
concVars == <<tmpDirs, builds>>
mainVars == <<mainPc, mainCtxErr, trapPc, sig, interrupts, cancelCalls>>
\* the variables no step of Build changes
callVars == <<fnName, fnIn, fnOut, devVars, concVars, mainVars>>
bldVars == <<b, bldCtx, buildRet, closeCount, rmFailed>>
procVars == <<proc, waitErr, waiter, killSent, finished>>
runVars == <<rc, rcCtx, rcCmd, rcRet, rcBranch, elapsed, started>>
vars == <<withArgs, replaceArgs, outputFile, b, pc, ctxErr, bldCtx, envCtx,
          tempFolder, err, caddyModulePath, embedIdx, plugIdx, neRet, buildRet,
          closeCount, rmFailed, rc, rcCtx, rcCmd, rcRet, rcBranch, proc, waitErr,
          waiter, killSent, elapsed, started, finished, mainGo, fnName, fnIn,
          fnOut, devPc, binOutput, devRet, tmpDirs, builds, mainPc, mainCtxErr,
          trapPc, sig, interrupts, cancelCalls>>

Nil == <<>>
NoCmd == [name |-> "none", idx |-> 0, args |-> <<>>]
NoRet == [env |-> FALSE, err |-> Nil]
\* no result yet
NoOut == [called |-> FALSE]

\* one build, as in every run but those of concurrent builds
NoConc == tmpDirs = {} /\ builds = <<>>

\* Main and trapSignals are not what the run follows
NoMain ==
  /\ mainPc = "none"
  /\ mainCtxErr = Nil
  /\ trapPc = "none"
  /\ sig = 0
  /\ interrupts = 0
  /\ cancelCalls = 0

\* ctx.Err() of the named context
CtxErrOf(c) == ctxErr[c]
\* ctx.Done() of the named context is closed
CtxDone(c) == ctxErr[c] # Nil

(***************************************************************************)
(* Init: the plugins and replacements are parsed from the arguments as     *)
(* buildCommand.RunE does.  The command line leaves TimeoutGet and         *)
(* TimeoutBuild zero; callers of the package that set them are modelled    *)
(* with the plugin lists of TimedWithArgs; compile options other than the  *)
(* defaults are given to builds without plugins, embedded directories to   *)
(* builds with at most one plugin; the plugin of SiblingWithArgs is built  *)
(* with the --replace argument.                                            *)
(***************************************************************************)
BuildInit ==
  /\ withArgs \in SeqsUpTo(WithArgSet, MaxWith) \cup TimedWithArgs
                  \cup SiblingWithArgs
  /\ replaceArgs \in {<<>>} \cup [1..MaxReplaceArgs -> ReplaceArgSet]
  /\ outputFile \in {<<>>, <<"o">>}
  /\ \E cv \in CaddyVersionSet, tg \in {0, 1}, tb \in {0, 1},
        sc \in BOOLEAN, sb \in BOOLEAN, win \in BOOLEAN, ne \in {0, MaxEmbed},
        co \in CompileOptions :
       LET parsed == ParseArgs(withArgs, replaceArgs) IN
       /\ (tg + tb > 0) => (withArgs \in TimedWithArgs /\ replaceArgs = <<>>)
       /\ (co # DefaultCompile) =>
            (withArgs = <<>> /\ replaceArgs = <<>> /\ ne = 0 /\ outputFile # <<>>)
       /\ (ne > 0) => Len(withArgs) <= 1
       /\ (withArgs \in SiblingWithArgs) => (replaceArgs # <<>> /\ ne = 0)
       /\ b = [CaddyVersion |-> cv,
               Plugins |-> parsed.plugins,
               Replacements |-> parsed.replacements,
               TimeoutGet |-> tg,
               TimeoutBuild |-> tb,
               SkipCleanup |-> sc,
               SkipBuild |-> sb,
               Windows |-> win,
               EmbedDirs |-> ne,
               Cgo |-> co.Cgo,
               RaceDetector |-> co.RaceDetector,
               Debug |-> co.Debug,
               BuildFlags |-> co.BuildFlags]
  /\ pc = "build"
  /\ ctxErr = [caller |-> Nil, build |-> Nil, get |-> Nil]
  /\ bldCtx = "caller"
  /\ envCtx = "caller"
  /\ tempFolder = "none"
  /\ err = Nil
  /\ caddyModulePath = <<>>
  /\ embedIdx = 1
  /\ plugIdx = 1
  /\ neRet = NoRet
  /\ buildRet = Nil
  /\ closeCount = 0
  /\ rmFailed = FALSE
  /\ rc = "idle"
  /\ rcCtx = "caller"
  /\ rcCmd = NoCmd
  /\ rcRet = Nil
  /\ rcBranch = "none"
  /\ proc = "none"
  /\ waitErr = Nil
  /\ waiter = "none"
  /\ killSent = "none"
  /\ elapsed = 0
  /\ started = <<>>
  /\ finished = <<>>
  /\ mainGo = <<>>
  /\ fnName = "none"
  /\ fnIn = <<>>
  /\ fnOut = NoOut
  /\ devPc = "none"
  /\ binOutput = "none"
  /\ devRet = Nil
  /\ NoConc
  /\ NoMain

(***************************************************************************)
(* Contexts.                                                               *)
(***************************************************************************)
Running == pc # "done"

\* the parent each context is derived from: Main makes the caller's context
\* from context.Background(), Build derives its context from the caller's
\* (context.WithTimeout(ctx, b.TimeoutBuild)), newEnvironment makes the
\* context for `go get` with context.WithTimeout(context.Background(), ...)
ParentOf(c) ==
  CASE c = "build" -> "caller"
    [] c = "get" -> "background"
    [] OTHER -> "background"

\* the context has been created
CtxExists(c) ==
  CASE c = "build" -> bldCtx = "build"
    [] c = "get" -> envCtx = "get"
    [] OTHER -> TRUE

\* context c is a or is derived from a
DerivedFrom(c, a) == c = a \/ ParentOf(c) = a \/ ParentOf(ParentOf(c)) = a

\* the contexts of set A end with error e: so does every live context
\* derived from one of them
EndCtx(A, e) ==
  [c \in DOMAIN ctxErr |->
     IF ctxErr[c] = Nil /\ CtxExists(c) /\ \E a \in A : DerivedFrom(c, a)
     THEN e ELSE ctxErr[c]]

\* trapSignals: the first interrupt cancels the context made by Main
Interrupt ==
  /\ Running
  /\ ctxErr.caller = Nil
  /\ ctxErr' = EndCtx({"caller"}, <<"canceled">>)
  /\ UNCHANGED <<cfgVars, callVars, envVars, bldVars, procVars, runVars, pc>>

\* the deadline of context.WithTimeout(ctx, b.TimeoutBuild) passes
BuildDeadline ==
  /\ Running
  /\ bldCtx = "build"
  /\ ctxErr.build = Nil
  /\ ctxErr' = EndCtx({"build"}, <<"deadline">>)
  /\ UNCHANGED <<cfgVars, callVars, envVars, bldVars, procVars, runVars, pc>>

\* the deadline of the context made for `go get` passes
GetDeadline ==
  /\ Running
  /\ envCtx = "get"
  /\ ctxErr.get = Nil
  /\ ctxErr' = EndCtx({"get"}, <<"deadline">>)
  /\ UNCHANGED <<cfgVars, callVars, envVars, bldVars, procVars, runVars, pc>>

(***************************************************************************)
(* The subprocess and the goroutines around it.                            *)
(***************************************************************************)
\* the subprocess ends by itself, with exit status 0 or not; when the context
\* watcher of exec.CommandContext has already cancelled it, a successful exit
\* is reported by Wait as the context's error.  cmd.Wait() returns in the
\* goroutine `go func() { cmdErrChan <- cmd.Wait() }()`, which then blocks in
\* the send on the unbuffered channel.
ProcExit ==
  /\ proc = "running"
  /\ \E status \in {"ok", "exit"} :
       waitErr' = IF status = "exit" THEN <<"exit">>
                  ELSE IF killSent = "context" THEN CtxErrOf(rcCtx)
                  ELSE Nil
  /\ proc' = "exited"
  /\ waiter' = IF waiter = "waiting" THEN "sending" ELSE waiter
  /\ finished' = Append(finished, rcCmd)
  /\ UNCHANGED <<cfgVars, callVars, envVars, bldVars, runVars, pc, ctxErr, killSent>>

\* who kills the subprocess when the context of its command is done:
\* exec.CommandContext kills it (os.Process.Kill) as soon as ctx is done
WatcherKills(c) == CtxDone(c)

\* the context watcher started by cmd.Start for a command made with
\* exec.CommandContext
ContextKill ==
  /\ proc = "running"
  /\ killSent = "none"
  /\ WatcherKills(rcCtx)
  /\ killSent' = "context"
  /\ UNCHANGED <<cfgVars, callVars, envVars, bldVars, runVars, pc, ctxErr, proc, waitErr,
                 waiter, finished>>

\* a killed subprocess dies
ProcDie ==
  /\ proc = "running"
  /\ killSent # "none"
  /\ proc' = "exited"
  /\ waitErr' = <<"killed">>
  /\ waiter' = IF waiter = "waiting" THEN "sending" ELSE waiter
  /\ finished' = Append(finished, rcCmd)
  /\ UNCHANGED <<cfgVars, callVars, envVars, bldVars, runVars, pc, ctxErr, killSent>>

(***************************************************************************)
(* environment.runCommand.  A caller starts it with Call(cmd, ctx, label)  *)
(* and continues at its label once rc is "idle" again.                     *)
(***************************************************************************)
\* runCommand(ctx, cmd) up to the select: cmd.Start(), make(chan), go func()
Call(cmd, c, runLabel, retLabel) ==
  /\ rcCtx' = c
  /\ rcCmd' = cmd
  /\ elapsed' = 0
  /\ IF CtxDone(c) THEN
       \* exec: Start fails with ctx.Err() when the context is already done
       /\ rcRet' = CtxErrOf(c)
       /\ rcBranch' = "start"
       /\ pc' = retLabel
       /\ UNCHANGED <<rc, started, procVars>>
     ELSE
       \/ /\ rcRet' = <<"start">>
          /\ rcBranch' = "start"
          /\ pc' = retLabel
          /\ UNCHANGED <<rc, started, procVars>>
       \/ /\ rc' = "select"
          /\ rcBranch' = "none"
          /\ pc' = runLabel
          /\ started' = Append(started, cmd)
          /\ proc' = "running"
          /\ waitErr' = Nil
          /\ waiter' = "waiting"
          /\ killSent' = "none"
          /\ UNCHANGED <<rcRet, finished>>

RetLabel(l) ==
  CASE l = "init_run" -> "init_ret"
    [] l = "edit_run" -> "edit_ret"
    [] l = "core_run" -> "core_ret"
    [] l = "plugin_run" -> "plugin_ret"
    [] l = "final_run" -> "final_ret"
    [] l = "list_run" -> "list_ret"
    [] l = "tidy_run" -> "tidy_ret"
    [] l = "compile_run" -> "compile_ret"
    [] OTHER -> l

\* case cmdErr := <-cmdErrChan: return cmdErr
SelectCmd ==
  /\ rc = "select"
  /\ waiter = "sending"
  /\ waiter' = "done"
  /\ rcRet' = waitErr
  /\ rcBranch' = "cmd"
  /\ rc' = "idle"
  /\ pc' = RetLabel(pc)
  /\ UNCHANGED <<cfgVars, callVars, envVars, bldVars, ctxErr, proc, waitErr, killSent,
                 finished, rcCtx, rcCmd, elapsed, started>>

\* case <-ctx.Done(): the inner select starts with time.After(15 * time.Second)
SelectCtx ==
  /\ rc = "select"
  /\ CtxDone(rcCtx)
  /\ rc' = "grace"
  /\ elapsed' = 0
  /\ UNCHANGED <<cfgVars, callVars, envVars, bldVars, procVars, ctxErr, pc, rcCtx, rcCmd,
                 rcRet, rcBranch, started>>

\* the grace window passes while runCommand is in the inner select: the
\* channel of time.After(15 * time.Second) becomes ready
GraceElapse ==
  /\ rc = "grace"
  /\ elapsed < GraceWindow
  /\ elapsed' = GraceWindow
  /\ UNCHANGED <<cfgVars, callVars, envVars, bldVars, procVars, ctxErr, pc, rc, rcCtx, rcCmd,
                 rcRet, rcBranch, started>>

\* mutant of GraceResult: the case <-ctx.Done() returns what cmd.Wait() gave
GraceResultMut(ctxE, cmdE) == cmdE

\* what runCommand returns from the case <-ctx.Done()
GraceResult(ctxE, cmdE) == ctxE

\* case <-time.After(15 * time.Second): _ = cmd.Process.Kill(); return ctx.Err()
GraceTimeout ==
  /\ rc = "grace"
  /\ elapsed = GraceWindow
  /\ killSent' = IF proc = "running" /\ killSent = "none" THEN "grace" ELSE killSent
  /\ rcRet' = GraceResult(CtxErrOf(rcCtx), waitErr)
  /\ rcBranch' = "timer"
  /\ rc' = "idle"
  /\ pc' = RetLabel(pc)
  /\ UNCHANGED <<cfgVars, callVars, envVars, bldVars, ctxErr, proc, waitErr, waiter,
                 finished, rcCtx, rcCmd, elapsed, started>>

\* case <-cmdErrChan: (inner select); return ctx.Err()
GraceCmd ==
  /\ rc = "grace"
  /\ waiter = "sending"
  /\ waiter' = "done"
  /\ rcRet' = GraceResult(CtxErrOf(rcCtx), waitErr)
  /\ rcBranch' = "graceexit"
  /\ rc' = "idle"
  /\ pc' = RetLabel(pc)
  /\ UNCHANGED <<cfgVars, callVars, envVars, bldVars, ctxErr, proc, waitErr, killSent,
                 finished, rcCtx, rcCmd, elapsed, started>>

(***************************************************************************)
(* Builder.newEnvironment.                                                 *)
(***************************************************************************)
\* the loop `for i, p := range b.Plugins` that rewrites the package paths in
\* place; it stops at the first error
RECURSIVE VersionPlugins(_, _)
\* one iteration: r is what versionedModulePath gave for plugin i
VersionPlugin(plugins, i, r) ==
  IF r.err # "nil"
  THEN [plugins |-> [plugins EXCEPT ![i].PackagePath = r.path], err |-> r.err]
  ELSE VersionPlugins([plugins EXCEPT ![i].PackagePath = r.path], i + 1)

VersionPlugins(plugins, i) ==
  IF i > Len(plugins) THEN [plugins |-> plugins, err |-> "nil"]
  ELSE VersionPlugin(plugins, i,
         versionedModulePath(plugins[i].PackagePath, plugins[i].Version))

\* the module path of the core before versionedModulePath is applied
CaddyBasePath(caddyVersion) ==
  IF ~HasPrefix(caddyVersion, <<"v">>) \/ ~ContainsChar(caddyVersion, ".")
  THEN defaultCaddyModulePath \o <<"/", "v", "2">>
  ELSE defaultCaddyModulePath

\* mutant of ReplacedMap: the first entry for an old path wins
ReplacedMapMut(repls) ==
  [o \in {ReplacementString(repls[i].Old) : i \in 1..Len(repls)} |->
     LET first == CHOOSE i \in 1..Len(repls) :
                    /\ ReplacementString(repls[i].Old) = o
                    /\ \A j \in 1..(i - 1) : ReplacementString(repls[j].Old) # o
     IN ReplacementString(repls[first].New)]

\* the map `replaced`: replaced[r.Old.String()] = r.New.String() for every
\* entry in order, so the last entry for an old path wins
ReplacedMap(repls) ==
  [o \in {ReplacementString(repls[i].Old) : i \in 1..Len(repls)} |->
     LET last == CHOOSE i \in 1..Len(repls) :
                   /\ ReplacementString(repls[i].Old) = o
                   /\ \A j \in (i + 1)..Len(repls) :
                        ReplacementString(repls[j].Old) # o
     IN ReplacementString(repls[last].New)]

\* the orders in which `for o, n := range replaced` can visit the keys: the
\* iteration order of a Go map is not specified
KeyOrders(replaced) ==
  { order \in [1..Cardinality(DOMAIN replaced) -> DOMAIN replaced] :
      \A i, j \in DOMAIN order : order[i] = order[j] => i = j }

\* "-replace"
ReplaceFlag == <<"-", "r", "e", "p", "l", "a", "c", "e">>

\* the arguments appended to `go mod edit`: "-replace", "o=n" for every key
\* in the order of the iteration
RECURSIVE EditArgs(_, _)
EditArgs(replaced, order) ==
  IF Len(order) = 0 THEN <<>>
  ELSE <<ReplaceFlag, Head(order) \o <<"=">> \o replaced[Head(order)]>>
         \o EditArgs(replaced, Tail(order))

\* mutant of SkipTest: only a plugin that is the replaced module is left out
SkipTestMut(packagePath, repl) == packagePath = repl

\* the test of the loop `for repl := range replaced`
SkipTest(packagePath, repl) == HasPrefix(packagePath, repl)

\* the pinning loop leaves the plugin out (continue nextPlugin)
Skipped(p, replaced) == \E repl \in DOMAIN replaced : SkipTest(p.PackagePath, repl)

\* the arguments execGoGet appends to `go get -d -v`
GoGetArgs(modulePath, moduleVersion, caddyPath, caddyVersion) ==
  LET mod == IF moduleVersion # <<>> THEN modulePath \o <<"@">> \o moduleVersion
             ELSE modulePath
      caddy == IF caddyVersion # <<>> THEN caddyPath \o <<"@">> \o caddyVersion
               ELSE caddyPath
  IN IF caddy # <<>> THEN <<mod, caddy>> ELSE <<mod>>

\* the deferred clean-up of newEnvironment (lines 359-366) removes the folder
\* when the variable err is set; it does not look at skipCleanup
CleanupWanted(e, skipCleanup) == e # Nil

\* the error the caller of newEnvironment receives when the clean-up fails
\* too: the deferred function assigns the composed error to the local
\* variable err; the results were set by the return statement and are not
\* named, so the caller gets the returned error
NEResultErr(returned, composed) == returned

\* the contexts cancelled by the deferred cancel functions of newEnvironment
\* (line 455) and of Build (line 508)
DeferredCancels(inEnv) ==
  (IF inEnv /\ envCtx = "get" THEN {"get"} ELSE {})
    \cup (IF bldCtx = "build" THEN {"build"} ELSE {})

\* mutant of DeferredCloses: Build does not defer buildEnv.Close()
DeferredClosesMut(envOk) == 0

\* the number of Close calls Build has deferred (line 539)
DeferredCloses(envOk) == IF envOk THEN 1 ELSE 0

\* environment.Close leaves the folder when skipCleanup is set
CloseSkips(skipCleanup) == skipCleanup

\* newEnvironment fails: `return nil, retErr` while its variable err holds
\* outerErr.  The deferred functions run (when the folder exists they are
\* registered: deferred), then Build returns the error at line 537 and its
\* deferred cancel runs.
NEFail(retErr, outerErr, deferred) ==
  \E rmOK \in BOOLEAN :
    LET cleanup == deferred /\ CleanupWanted(outerErr, b.SkipCleanup)
        composed == outerErr \o <<"cleanup">>
        result == IF cleanup /\ ~rmOK THEN NEResultErr(retErr, composed) ELSE retErr
    IN /\ (~cleanup => rmOK)
       /\ err' = IF cleanup /\ ~rmOK THEN composed ELSE outerErr
       /\ tempFolder' = IF cleanup /\ rmOK THEN "removed" ELSE tempFolder
       /\ rmFailed' = (rmFailed \/ (cleanup /\ ~rmOK))
       /\ neRet' = [env |-> FALSE, err |-> result]
       /\ buildRet' = result
       /\ ctxErr' = EndCtx(DeferredCancels(TRUE), <<"canceled">>)
       /\ pc' = "done"
       /\ UNCHANGED closeCount

\* a return statement of Build outside newEnvironment: the deferred
\* buildEnv.Close() runs when it was registered (its error is dropped), then
\* the deferred cancel
BReturn(e) ==
  \E rmOK \in BOOLEAN :
    LET closes == DeferredCloses(neRet.env)
        removes == closes > 0 /\ ~CloseSkips(b.SkipCleanup)
    IN /\ (~removes => rmOK)
       /\ buildRet' = e
       /\ closeCount' = closeCount + closes
       /\ tempFolder' = IF removes /\ rmOK THEN "removed" ELSE tempFolder
       /\ rmFailed' = (rmFailed \/ (removes /\ ~rmOK))
       /\ ctxErr' = EndCtx(DeferredCancels(FALSE), <<"canceled">>)
       /\ pc' = "done"

\* mutant of B_Start: an empty output path is not rejected
B_StartMut ==
  /\ pc = "build"
  /\ \/ /\ BReturn(<<"abs">>)
        /\ UNCHANGED <<bldCtx, envCtx>>
     \/ /\ pc' = "ne_versions"
        /\ bldCtx' = IF b.TimeoutBuild > 0 THEN "build" ELSE "caller"
        /\ envCtx' = bldCtx'
        /\ ctxErr' = IF b.TimeoutBuild > 0
                     THEN [ctxErr EXCEPT !.build = ctxErr.caller] ELSE ctxErr
        /\ UNCHANGED <<buildRet, closeCount, tempFolder, rmFailed>>
  /\ UNCHANGED <<cfgVars, callVars, b, err, caddyModulePath, mainGo, embedIdx, plugIdx, neRet,
                 procVars, runVars>>

\* lines 504-535: the context with the build timeout, the output path, the
\* call of newEnvironment (when Build returns before that call, nothing has
\* used the context with the build timeout)
B_Start ==
  /\ pc = "build"
  /\ IF outputFile = <<>> THEN
       /\ BReturn(<<"output file path is required">>)
       /\ UNCHANGED <<bldCtx, envCtx>>
     ELSE
       \/ /\ BReturn(<<"abs">>)
          /\ UNCHANGED <<bldCtx, envCtx>>
       \/ /\ pc' = "ne_versions"
          /\ bldCtx' = IF b.TimeoutBuild > 0 THEN "build" ELSE "caller"
          /\ envCtx' = bldCtx'
          /\ ctxErr' = IF b.TimeoutBuild > 0
                       THEN [ctxErr EXCEPT !.build = ctxErr.caller] ELSE ctxErr
          /\ UNCHANGED <<buildRet, closeCount, tempFolder, rmFailed>>
  /\ UNCHANGED <<cfgVars, callVars, b, err, caddyModulePath, mainGo, embedIdx, plugIdx, neRet,
                 procVars, runVars>>

\* mutant of TplContext: the plugins are listed last to first
TplContextMut(caddyPath, plugins) ==
  [CaddyModule |-> caddyPath,
   Plugins |-> [i \in 1..Len(plugins) |-> plugins[Len(plugins) + 1 - i].PackagePath]]

\* goModTemplateContext as lines 335-341 fill it: the core path and the
\* package path of every plugin, in the order of b.Plugins
TplContext(caddyPath, plugins) ==
  [CaddyModule |-> caddyPath,
   Plugins |-> [i \in 1..Len(plugins) |-> plugins[i].PackagePath]]

\* "/cmd" and "/modules/standard" of mainModuleTemplate
CmdSuffix == <<"/", "c", "m", "d">>
StandardSuffix ==
  <<"/", "m", "o", "d", "u", "l", "e", "s", "/", "s", "t", "a", "n", "d", "a", "r", "d">>

\* the lines `_ "{{.}}"` of {{range .Plugins}}
RECURSIVE PluginImports(_)
PluginImports(paths) ==
  IF Len(paths) = 0 THEN <<>>
  ELSE <<[name |-> "_", path |-> Head(paths)]>> \o PluginImports(Tail(paths))

\* mainModuleTemplate executed on tplCtx: the lines of the import block
mainModuleTemplate(tplCtx) ==
  <<[name |-> "caddycmd", path |-> tplCtx.CaddyModule \o CmdSuffix],
    [name |-> "_", path |-> tplCtx.CaddyModule \o StandardSuffix]>>
    \o PluginImports(tplCtx.Plugins)

\* lines 316-352: resolve the versioned module paths, render the template
NE_Versions ==
  /\ pc = "ne_versions"
  /\ LET c == versionedModulePath(CaddyBasePath(b.CaddyVersion), b.CaddyVersion)
         vp == VersionPlugins(b.Plugins, 1)
     IN IF c.err # "nil" THEN
          /\ NEFail(<<c.err>>, <<c.err>>, FALSE)
          /\ UNCHANGED <<b, caddyModulePath, mainGo>>
        ELSE
          /\ caddyModulePath' = c.path
          /\ b' = [b EXCEPT !.Plugins = vp.plugins]
          /\ IF vp.err # "nil" THEN
               /\ NEFail(<<vp.err>>, <<vp.err>>, FALSE)
               /\ UNCHANGED mainGo
             ELSE /\ mainGo' = mainModuleTemplate(TplContext(c.path, vp.plugins))
                  /\ err' = Nil
                  /\ pc' = "ne_temp"
                  /\ UNCHANGED <<neRet, buildRet, ctxErr, tempFolder, rmFailed,
                                 closeCount>>
  /\ UNCHANGED <<cfgVars, callVars, bldCtx, envCtx, embedIdx, plugIdx, procVars, runVars>>

\* lines 354-367: newTempFolder and the registration of the clean-up
NE_TempFolder ==
  /\ pc = "ne_temp"
  /\ \/ NEFail(<<"mkdirtemp">>, <<"mkdirtemp">>, FALSE)
     \/ /\ err' = Nil
        /\ tempFolder' = "exists"
        /\ pc' = "ne_write"
        /\ UNCHANGED <<neRet, buildRet, ctxErr, rmFailed, closeCount>>
  /\ UNCHANGED <<cfgVars, callVars, b, bldCtx, envCtx, caddyModulePath, mainGo, embedIdx, plugIdx,
                 procVars, runVars>>

\* lines 369-375: write main.go
NE_WriteMain ==
  /\ pc = "ne_write"
  /\ \/ NEFail(<<"write">>, <<"write">>, TRUE)
     \/ /\ err' = Nil
        /\ pc' = "ne_embed"
        /\ UNCHANGED <<neRet, buildRet, ctxErr, tempFolder, rmFailed, closeCount>>
  /\ UNCHANGED <<cfgVars, callVars, b, bldCtx, envCtx, caddyModulePath, mainGo, embedIdx, plugIdx,
                 procVars, runVars>>

\* lines 377-404: one iteration of the loop over b.EmbedDirs: copy, os.Stat,
\* write embed.go
NE_Embed ==
  /\ pc = "ne_embed"
  /\ IF embedIdx > b.EmbedDirs THEN
       /\ pc' = "ne_init"
       /\ UNCHANGED <<err, neRet, embedIdx, buildRet, ctxErr, tempFolder, rmFailed,
                      closeCount>>
     ELSE
       \/ /\ \E e \in {"copy", "write"} : NEFail(<<e>>, <<e>>, TRUE)
          /\ UNCHANGED embedIdx
       \/ /\ NEFail(<<"embed directory does not exist">>, <<"stat">>, TRUE)
          /\ UNCHANGED embedIdx
       \/ /\ err' = Nil
          /\ embedIdx' = embedIdx + 1
          /\ UNCHANGED <<pc, neRet, buildRet, ctxErr, tempFolder, rmFailed,
                         closeCount>>
  /\ UNCHANGED <<cfgVars, callVars, b, bldCtx, envCtx, caddyModulePath, mainGo, plugIdx, procVars,
                 runVars>>

\* lines 417-421: go mod init caddy
NE_Init ==
  /\ pc = "ne_init"
  /\ Call([name |-> "init", idx |-> 0, args |-> <<>>], envCtx, "init_run", "init_ret")
  /\ UNCHANGED <<cfgVars, callVars, envVars, bldVars, ctxErr>>

\* mutant of NE_InitRet: the versions are pinned without the replacements
\* having been written
NE_InitRetMut ==
  /\ pc = "init_ret"
  /\ IF rcRet # Nil THEN NEFail(rcRet, rcRet, TRUE)
     ELSE /\ err' = Nil
          /\ pc' = "ne_abort"
          /\ UNCHANGED <<neRet, buildRet, ctxErr, tempFolder, rmFailed, closeCount>>
  /\ UNCHANGED <<cfgVars, callVars, b, bldCtx, envCtx, caddyModulePath, mainGo, embedIdx, plugIdx,
                 procVars, runVars>>

\* lines 421-424: err = env.runCommand(ctx, cmd)
NE_InitRet ==
  /\ pc = "init_ret"
  /\ IF rcRet # Nil THEN NEFail(rcRet, rcRet, TRUE)
     ELSE /\ err' = Nil
          /\ pc' = "ne_replace"
          /\ UNCHANGED <<neRet, buildRet, ctxErr, tempFolder, rmFailed, closeCount>>
  /\ UNCHANGED <<cfgVars, callVars, b, bldCtx, envCtx, caddyModulePath, mainGo, embedIdx, plugIdx,
                 procVars, runVars>>

\* lines 426-437: go mod edit -replace ..., only when there are replacements
NE_Replace ==
  /\ pc = "ne_replace"
  /\ IF Cardinality(DOMAIN ReplacedMap(b.Replacements)) > 0
     THEN \E order \in KeyOrders(ReplacedMap(b.Replacements)) :
            Call([name |-> "edit", idx |-> 0,
                  args |-> EditArgs(ReplacedMap(b.Replacements), order)],
                 envCtx, "edit_run", "edit_ret")
     ELSE /\ pc' = "ne_abort"
          /\ UNCHANGED <<procVars, runVars>>
  /\ UNCHANGED <<cfgVars, callVars, envVars, bldVars, ctxErr>>

\* the value of the function's variable err after the edit command: line 437
\* declares a new err inside the if block (err := ...), so the err of the
\* function keeps its value
EditErrOuter(outer, ret) == outer

\* lines 437-440
NE_ReplaceRet ==
  /\ pc = "edit_ret"
  /\ IF rcRet # Nil THEN NEFail(rcRet, EditErrOuter(err, rcRet), TRUE)
     ELSE /\ err' = EditErrOuter(err, rcRet)
          /\ pc' = "ne_abort"
          /\ UNCHANGED <<neRet, buildRet, ctxErr, tempFolder, rmFailed, closeCount>>
  /\ UNCHANGED <<cfgVars, callVars, b, bldCtx, envCtx, caddyModulePath, mainGo, embedIdx, plugIdx,
                 procVars, runVars>>

\* lines 443-456: the early-abort check (`return nil, ctx.Err()` leaves the
\* variable err as it is), then the context for `go get`
NE_Abort ==
  /\ pc = "ne_abort"
  /\ IF CtxDone(envCtx) THEN
       /\ NEFail(CtxErrOf(envCtx), err, TRUE)
       /\ UNCHANGED envCtx
     ELSE
       /\ pc' = "ne_core"
       /\ envCtx' = IF b.TimeoutGet > 0 THEN "get" ELSE envCtx
       /\ UNCHANGED <<err, neRet, buildRet, ctxErr, tempFolder, rmFailed, closeCount>>
  /\ UNCHANGED <<cfgVars, callVars, b, bldCtx, caddyModulePath, mainGo, embedIdx, plugIdx,
                 procVars, runVars>>

\* lines 458-460: pin the core
NE_Core ==
  /\ pc = "ne_core"
  /\ Call([name |-> "get", idx |-> 0,
           args |-> GoGetArgs(caddyModulePath, b.CaddyVersion, <<>>, <<>>)],
          envCtx, "core_run", "core_ret")
  /\ UNCHANGED <<cfgVars, callVars, envVars, bldVars, ctxErr>>

\* lines 460-463
NE_CoreRet ==
  /\ pc = "core_ret"
  /\ IF rcRet # Nil THEN NEFail(rcRet, rcRet, TRUE)
     ELSE /\ err' = Nil
          /\ pc' = "ne_plugin"
          /\ UNCHANGED <<neRet, buildRet, ctxErr, tempFolder, rmFailed, closeCount>>
  /\ UNCHANGED <<cfgVars, callVars, b, bldCtx, envCtx, caddyModulePath, mainGo, embedIdx, plugIdx,
                 procVars, runVars>>

\* lines 464-476: the head of one iteration of the pinning loop
NE_Plugin ==
  /\ pc = "ne_plugin"
  /\ IF plugIdx > Len(b.Plugins) THEN
       /\ pc' = "ne_final"
       /\ UNCHANGED <<plugIdx, procVars, runVars>>
     ELSE IF Skipped(b.Plugins[plugIdx], ReplacedMap(b.Replacements)) THEN
       /\ plugIdx' = plugIdx + 1
       /\ UNCHANGED <<pc, procVars, runVars>>
     ELSE
       /\ Call([name |-> "get", idx |-> plugIdx,
                args |-> GoGetArgs(b.Plugins[plugIdx].PackagePath,
                                   b.Plugins[plugIdx].Version,
                                   caddyModulePath, b.CaddyVersion)],
               envCtx, "plugin_run", "plugin_ret")
       /\ UNCHANGED plugIdx
  /\ UNCHANGED <<cfgVars, callVars, bldVars, ctxErr, envCtx, tempFolder, err, caddyModulePath, mainGo,
                 embedIdx, neRet>>

\* lines 476-485: the result of the pin, then the early-abort check
NE_PluginRet ==
  /\ pc = "plugin_ret"
  /\ IF rcRet # Nil THEN
       /\ NEFail(rcRet, rcRet, TRUE)
       /\ UNCHANGED plugIdx
     ELSE IF CtxDone(envCtx) THEN
       /\ NEFail(CtxErrOf(envCtx), Nil, TRUE)
       /\ UNCHANGED plugIdx
     ELSE
       /\ err' = Nil
       /\ plugIdx' = plugIdx + 1
       /\ pc' = "ne_plugin"
       /\ UNCHANGED <<neRet, buildRet, ctxErr, tempFolder, rmFailed, closeCount>>
  /\ UNCHANGED <<cfgVars, callVars, b, bldCtx, envCtx, caddyModulePath, mainGo, embedIdx,
                 procVars, runVars>>

\* lines 488-491: the empty go get
NE_Final ==
  /\ pc = "ne_final"
  /\ Call([name |-> "get", idx |-> -1, args |-> GoGetArgs(<<>>, <<>>, <<>>, <<>>)],
          envCtx, "final_run", "final_ret")
  /\ UNCHANGED <<cfgVars, callVars, envVars, bldVars, ctxErr>>

\* lines 491-497 and 535-539: on success the deferred cancel of the `go get`
\* context runs, the clean-up finds err nil, and Build defers buildEnv.Close()
NE_FinalRet ==
  /\ pc = "final_ret"
  /\ IF rcRet # Nil THEN NEFail(rcRet, rcRet, TRUE)
     ELSE /\ err' = Nil
          /\ neRet' = [env |-> TRUE, err |-> Nil]
          /\ ctxErr' = EndCtx(IF envCtx = "get" THEN {"get"} ELSE {}, <<"canceled">>)
          /\ pc' = "b_windows"
          /\ UNCHANGED <<buildRet, tempFolder, rmFailed, closeCount>>
  /\ UNCHANGED <<cfgVars, callVars, b, bldCtx, envCtx, caddyModulePath, mainGo, embedIdx, plugIdx,
                 procVars, runVars>>

(***************************************************************************)
(* Builder.Build after newEnvironment.                                     *)
(***************************************************************************)
\* lines 541-547: go list -m, only for a windows target
B_Windows ==
  /\ pc = "b_windows"
  /\ IF b.Windows
     THEN Call([name |-> "list", idx |-> 0, args |-> <<>>], bldCtx,
               "list_run", "list_ret")
     ELSE /\ pc' = "b_skip"
          /\ UNCHANGED <<procVars, runVars>>
  /\ UNCHANGED <<cfgVars, callVars, envVars, bldVars, ctxErr>>

\* lines 547-564: the result of go list, then utils.WindowsResource
B_ListRet ==
  /\ pc = "list_ret"
  /\ IF rcRet # Nil THEN BReturn(rcRet)
     ELSE \/ BReturn(<<"resource">>)
          \/ /\ pc' = "b_skip"
             /\ UNCHANGED <<buildRet, closeCount, tempFolder, rmFailed, ctxErr>>
  /\ UNCHANGED <<cfgVars, callVars, b, bldCtx, envCtx, err, caddyModulePath, mainGo, embedIdx,
                 plugIdx, neRet, procVars, runVars>>

\* mutant of B_SkipBuild: SkipBuild is not looked at
B_SkipBuildMut ==
  /\ pc = "b_skip"
  /\ pc' = "b_tidy"
  /\ UNCHANGED <<buildRet, closeCount, tempFolder, rmFailed, ctxErr>>
  /\ UNCHANGED <<cfgVars, callVars, b, bldCtx, envCtx, err, caddyModulePath, mainGo, embedIdx,
                 plugIdx, neRet, procVars, runVars>>

\* lines 566-570
B_SkipBuild ==
  /\ pc = "b_skip"
  /\ IF b.SkipBuild THEN BReturn(Nil)
     ELSE /\ pc' = "b_tidy"
          /\ UNCHANGED <<buildRet, closeCount, tempFolder, rmFailed, ctxErr>>
  /\ UNCHANGED <<cfgVars, callVars, b, bldCtx, envCtx, err, caddyModulePath, mainGo, embedIdx,
                 plugIdx, neRet, procVars, runVars>>

\* lines 587-589: go mod tidy -e
B_Tidy ==
  /\ pc = "b_tidy"
  /\ Call([name |-> "tidy", idx |-> 0, args |-> <<>>], bldCtx, "tidy_run", "tidy_ret")
  /\ UNCHANGED <<cfgVars, callVars, envVars, bldVars, ctxErr>>

\* mutant of B_TidyRet: the error of the tidy command is dropped
B_TidyRetMut ==
  /\ pc = "tidy_ret"
  /\ pc' = "b_compile"
  /\ UNCHANGED <<buildRet, closeCount, tempFolder, rmFailed, ctxErr>>
  /\ UNCHANGED <<cfgVars, callVars, b, bldCtx, envCtx, err, caddyModulePath, mainGo, embedIdx,
                 plugIdx, neRet, procVars, runVars>>

\* lines 589-591
B_TidyRet ==
  /\ pc = "tidy_ret"
  /\ IF rcRet # Nil THEN BReturn(rcRet)
     ELSE /\ pc' = "b_compile"
          /\ UNCHANGED <<buildRet, closeCount, tempFolder, rmFailed, ctxErr>>
  /\ UNCHANGED <<cfgVars, callVars, b, bldCtx, envCtx, err, caddyModulePath, mainGo, embedIdx,
                 plugIdx, neRet, procVars, runVars>>

\* lines 593-614: go build -o
B_Compile ==
  /\ pc = "b_compile"
  /\ Call([name |-> "build", idx |-> 0,
           args |-> CompileArgs(b, FilepathAbs(outputFile)),
           env |-> CompileEnv(b)],
          bldCtx, "compile_run", "compile_ret")
  /\ UNCHANGED <<cfgVars, callVars, envVars, bldVars, ctxErr>>

\* lines 614-621
B_CompileRet ==
  /\ pc = "compile_ret"
  /\ BReturn(rcRet)
  /\ UNCHANGED <<cfgVars, callVars, b, bldCtx, envCtx, err, caddyModulePath, mainGo, embedIdx,
                 plugIdx, neRet, procVars, runVars>>

(***************************************************************************)
(* Specification.                                                          *)
(***************************************************************************)
(***************************************************************************)
(* Unit runs: one function of the program is applied to arguments drawn    *)
(* from bounded sets, as the tests of the repository do.  No build runs.   *)
(***************************************************************************)
\* the characters of the arguments given to splitWith
ArgChars == {"m", "@", "="}

\* the arguments given to splitWith
SplitArgs == SeqsUpTo(ArgChars, MaxArgLen)

\* module paths given to versionedModulePath and normalizeImportPath
ModulePathSet ==
  { <<"a">>,
    <<"a", "/", "b">>,
    <<"a", "/", "v", "2">>,
    <<"a", "/", "b", "/", "v", "3">>,
    <<"a", "/", "v", "1">>,
    <<"v", "2">>,
    <<"a", "/", "/", "b">>,
    <<"a", "/">>,
    <<".", "/", "v", "2">> }

\* versions given to versionedModulePath
VersionSet ==
  { <<>>,
    <<"v", "1", ".", "2", ".", "3">>,
    <<"v", "2", ".", "0", ".", "0">>,
    <<"v", "3", ".", "0", ".", "1">>,
    <<"v", "0", ".", "1", ".", "0">>,
    <<"2", ".", "0", ".", "0">>,
    <<"v", "2">>,
    <<"v", "2", ".", "0">>,
    <<"m">>,
    <<"v", "m">>,
    <<"v", "2", ".", "0", ".", "0", "-", "r", "c">>,
    <<"v", "0", "2", ".", "0", ".", "0">> }

\* module root directories given to normalizeImportPath
ModuleDirSet ==
  { <<>>,
    <<"/">>,
    <<"/", "x">>,
    <<"/", "x", "/", "y">>,
    <<"c", ":", "\\", "x">> }

\* what the working directory adds to the module root
SubDirSet ==
  { <<>>,
    <<"/", "s", "u", "b">>,
    <<"\\", "s", "u", "b">> }

\* os.PathSeparator of the hosts
SeparatorSet == {"/", "\\"}

\* replacement paths of the Replace entries given to a Builder
ReplacementPathSet ==
  { <<"a">>,
    <<"a", " ", "v">>,
    <<"/", "r">> }

\* lists of Replace entries
ReplaceListSet ==
  SeqsUpTo({NewReplace(o, n) : o \in ReplacementPathSet, n \in ReplacementPathSet},
           MaxReplaceList)

\* the main module in the output of `go list -m -json all`
MainModule ==
  [Path |-> <<"m">>, Version |-> <<>>, Main |-> TRUE, Dir |-> <<"/", "x">>,
   Replace |-> <<>>]

\* a dependency in that output, replaced by the module or directory
\* replace (<<>> when it is not replaced)
DepModule(replace) ==
  [Path |-> <<"d">>, Version |-> <<"v", "1">>, Main |-> FALSE, Dir |-> <<"/", "c">>,
   Replace |-> replace]

\* the module a replacement points to
Target(path, version) ==
  <<[Path |-> path, Version |-> version, Main |-> FALSE, Dir |-> <<>>,
     Replace |-> <<>>]>>

\* the modules of the outputs given to parseGoListJson: the main module, a
\* dependency without replacement, and dependencies replaced by a module
\* with a version, by an absolute path and by a relative path
GoListModuleSet ==
  { MainModule,
    DepModule(<<>>),
    DepModule(Target(<<"e">>, <<"v", "2">>)),
    DepModule(Target(<<"/", "q">>, <<>>)),
    DepModule(Target(<<".", ".", "/", "r">>, <<>>)) }

\* the outputs given to parseGoListJson
GoListSet == SeqsUpTo(GoListModuleSet, MaxModules)

\* values of buildFlags given to newGoBuildCommand
FlagInputSet ==
  { <<>>,
    <<" ">>,
    <<"-", "x">>,
    <<"-", "x", " ", "-", "y">>,
    <<"-", "l", " ", "'", "-", "w", " ", "-", "s", "'">>,
    <<"'", "-", "x">> }

\* "main.go"
ArgMainGo == <<"m", "a", "i", "n", ".", "g", "o">>

\* arguments given to newGoBuildCommand
GoArgsSet == { <<>>, <<ArgBuild>>, <<ArgBuild, ArgMainGo>>, <<ArgBuild, ArgO, ArgMainGo>> }

\* the state of the build while a unit run goes on: nothing is built
NoBuild ==
  /\ withArgs = <<>>
  /\ replaceArgs = <<>>
  /\ outputFile = <<>>
  /\ b = [CaddyVersion |-> <<>>, Plugins |-> <<>>, Replacements |-> <<>>,
          TimeoutGet |-> 0, TimeoutBuild |-> 0, SkipCleanup |-> FALSE,
          SkipBuild |-> FALSE, Windows |-> FALSE, EmbedDirs |-> 0,
          Cgo |-> FALSE, RaceDetector |-> FALSE, Debug |-> FALSE,
          BuildFlags |-> <<>>]
  /\ pc = "done"
  /\ ctxErr = [caller |-> Nil, build |-> Nil, get |-> Nil]
  /\ bldCtx = "caller"
  /\ envCtx = "caller"
  /\ tempFolder = "none"
  /\ err = Nil
  /\ caddyModulePath = <<>>
  /\ embedIdx = 1
  /\ plugIdx = 1
  /\ neRet = NoRet
  /\ buildRet = Nil
  /\ closeCount = 0
  /\ rmFailed = FALSE
  /\ rc = "idle"
  /\ rcCtx = "caller"
  /\ rcCmd = NoCmd
  /\ rcRet = Nil
  /\ rcBranch = "none"
  /\ proc = "none"
  /\ waitErr = Nil
  /\ waiter = "none"
  /\ killSent = "none"
  /\ elapsed = 0
  /\ started = <<>>
  /\ finished = <<>>
  /\ mainGo = <<>>
  /\ devPc = "none"
  /\ binOutput = "none"
  /\ devRet = Nil

UnitInit ==
  /\ NoBuild
  /\ NoConc
  /\ NoMain
  /\ fnOut = NoOut
  /\ \/ /\ fnName = "splitWith"
        /\ fnIn \in SplitArgs
     \/ /\ fnName = "versionedModulePath"
        /\ fnIn \in {[modulePath |-> p, moduleVersion |-> v] :
                       p \in ModulePathSet, v \in VersionSet}
     \/ /\ fnName = "normalizeImportPath"
        /\ fnIn \in {[currentModule |-> m, cwd |-> d \o sub, moduleDir |-> d,
                      separator |-> sep] :
                       m \in ModulePathSet, d \in ModuleDirSet, sub \in SubDirSet,
                       sep \in SeparatorSet}
     \/ /\ fnName = "editArgs"
        /\ fnIn \in ReplaceListSet
     \/ /\ fnName = "parseGoListJson"
        /\ fnIn \in GoListSet
     \/ /\ fnName = "newGoBuildCommand"
        /\ fnIn \in {[buildFlags |-> f, args |-> a] :
                       f \in FlagInputSet, a \in GoArgsSet}

buildVars == <<withArgs, replaceArgs, outputFile, b, pc, ctxErr, bldCtx, envCtx,
               tempFolder, err, caddyModulePath, embedIdx, plugIdx, neRet,
               buildRet, closeCount, rmFailed, rc, rcCtx, rcCmd, rcRet, rcBranch,
               proc, waitErr, waiter, killSent, elapsed, started, finished, mainGo>>

\* splitWith is applied (TestSplitWith)
Call_splitWith ==
  /\ fnName = "splitWith"
  /\ ~fnOut.called
  /\ fnOut' = [called |-> TRUE, val |-> splitWith(fnIn)]
  /\ UNCHANGED <<buildVars, concVars, mainVars, devVars, fnName, fnIn>>

\* versionedModulePath is applied
Call_versionedModulePath ==
  /\ fnName = "versionedModulePath"
  /\ ~fnOut.called
  /\ fnOut' = [called |-> TRUE,
               val |-> versionedModulePath(fnIn.modulePath, fnIn.moduleVersion)]
  /\ UNCHANGED <<buildVars, concVars, mainVars, devVars, fnName, fnIn>>

\* normalizeImportPath is applied (TestNormalizeImportPath)
Call_normalizeImportPath ==
  /\ fnName = "normalizeImportPath"
  /\ ~fnOut.called
  /\ fnOut' = [called |-> TRUE,
               val |-> normalizeImportPath(fnIn.currentModule, fnIn.cwd,
                                           fnIn.moduleDir, fnIn.separator)]
  /\ UNCHANGED <<buildVars, concVars, mainVars, devVars, fnName, fnIn>>

\* the arguments of `go mod edit` are built from a list of Replace entries
\* as lines 426-436 of newEnvironment build them
Call_editArgs ==
  /\ fnName = "editArgs"
  /\ ~fnOut.called
  /\ \E order \in KeyOrders(ReplacedMap(fnIn)) :
       fnOut' = [called |-> TRUE, val |-> EditArgs(ReplacedMap(fnIn), order)]
  /\ UNCHANGED <<buildVars, concVars, mainVars, devVars, fnName, fnIn>>

\* parseGoListJson is applied (TestParseGoListJson)
Call_parseGoListJson ==
  /\ fnName = "parseGoListJson"
  /\ ~fnOut.called
  /\ fnOut' = [called |-> TRUE, val |-> parseGoListJson(fnIn)]
  /\ UNCHANGED <<buildVars, concVars, mainVars, devVars, fnName, fnIn>>

\* newGoBuildCommand is applied (Test_environment_newGoBuildCommand)
Call_newGoBuildCommand ==
  /\ fnName = "newGoBuildCommand"
  /\ ~fnOut.called
  /\ fnOut' = [called |-> TRUE,
               val |-> newGoBuildCommand(fnIn.buildFlags, fnIn.args)]
  /\ UNCHANGED <<buildVars, concVars, mainVars, devVars, fnName, fnIn>>

(***************************************************************************)
(* Plugin-development mode: rootCmd.RunE (cmd/cobra.go).  It builds Caddy  *)
(* with the module of the current directory plugged in, runs the binary    *)
(* and removes it.                                                         *)
(***************************************************************************)
\* what `go list -m -json all` prints in the directory of the plugin
DevListSet == { <<MainModule>>, <<DepModule(Target(<<".", ".", "/", "r">>, <<>>)), MainModule>> }

\* lines 27-72: the Builder of rootCmd.RunE, made from the output of go
\* list; the working directory is the root of the module
DevInit ==
  /\ withArgs = <<>>
  /\ replaceArgs = <<>>
  /\ outputFile = <<"o">>
  /\ \E mods \in DevListSet, cv \in CaddyVersionSet, sc \in BOOLEAN, sb \in BOOLEAN :
       b = [CaddyVersion |-> cv,
            Plugins |->
              <<[PackagePath |->
                   normalizeImportPath(parseGoListJson(mods).currentModule,
                                       parseGoListJson(mods).moduleDir,
                                       parseGoListJson(mods).moduleDir, "/"),
                 Version |-> <<>>]>>,
            Replacements |-> parseGoListJson(mods).replacements,
            TimeoutGet |-> 0,
            TimeoutBuild |-> 0,
            SkipCleanup |-> sc,
            SkipBuild |-> sb,
            Windows |-> FALSE,
            EmbedDirs |-> 0,
            Cgo |-> FALSE,
            RaceDetector |-> FALSE,
            Debug |-> FALSE,
            BuildFlags |-> <<>>]
  /\ pc = "build"
  /\ ctxErr = [caller |-> Nil, build |-> Nil, get |-> Nil]
  /\ bldCtx = "caller"
  /\ envCtx = "caller"
  /\ tempFolder = "none"
  /\ err = Nil
  /\ caddyModulePath = <<>>
  /\ embedIdx = 1
  /\ plugIdx = 1
  /\ neRet = NoRet
  /\ buildRet = Nil
  /\ closeCount = 0
  /\ rmFailed = FALSE
  /\ rc = "idle"
  /\ rcCtx = "caller"
  /\ rcCmd = NoCmd
  /\ rcRet = Nil
  /\ rcBranch = "none"
  /\ proc = "none"
  /\ waitErr = Nil
  /\ waiter = "none"
  /\ killSent = "none"
  /\ elapsed = 0
  /\ started = <<>>
  /\ finished = <<>>
  /\ mainGo = <<>>
  /\ fnName = "none"
  /\ fnIn = <<>>
  /\ fnOut = NoOut
  /\ devPc = "build"
  /\ binOutput = "none"
  /\ devRet = Nil
  /\ NoConc
  /\ NoMain

\* `go build -o binOutput` has written the binary: the compile command was
\* started and its subprocess has exited with status 0
BinaryWritten ==
  /\ Len(started) > 0
  /\ started[Len(started)].name = "build"
  /\ proc = "exited"
  /\ waitErr = Nil

\* lines 73-76: builder.Build has returned
D_Build ==
  /\ devPc = "build"
  /\ pc = "done"
  /\ binOutput' = IF BinaryWritten THEN "exists" ELSE binOutput
  /\ IF buildRet # Nil
     THEN devRet' = buildRet /\ devPc' = "done"
     ELSE devRet' = devRet /\ devPc' = "setcap"
  /\ UNCHANGED <<buildVars, concVars, mainVars, fnName, fnIn, fnOut>>

\* lines 78-82: setcapIfRequested fails, or succeeds or has nothing to do
D_Setcap ==
  /\ devPc = "setcap"
  /\ \/ devRet' = <<"setcap">> /\ devPc' = "done"
     \/ devRet' = devRet /\ devPc' = "start"
  /\ UNCHANGED <<buildVars, concVars, mainVars, fnName, fnIn, fnOut, binOutput>>

\* lines 86-93: execCmd.Start(); a binary that is not there cannot be started
D_Start ==
  /\ devPc = "start"
  /\ \/ devRet' = <<"start">> /\ devPc' = "done"
     \/ /\ binOutput = "exists"
        /\ devRet' = devRet
        /\ devPc' = "wait"
  /\ UNCHANGED <<buildVars, concVars, mainVars, fnName, fnIn, fnOut, binOutput>>

\* the binary after the deferred function of lines 94-103 has run
DeferredRemove(bin, skipCleanup, removeOK) ==
  IF skipCleanup THEN bin
  ELSE IF removeOK THEN "removed"
  ELSE "undeletable"

\* lines 94-105: `return execCmd.Wait()`, then the deferred function
D_Wait ==
  /\ devPc = "wait"
  /\ \E status \in {Nil, <<"exit">>}, removeOK \in BOOLEAN :
       /\ devRet' = status
       /\ binOutput' = DeferredRemove(binOutput, b.SkipCleanup, removeOK)
  /\ devPc' = "done"
  /\ UNCHANGED <<buildVars, concVars, mainVars, fnName, fnIn, fnOut>>

(***************************************************************************)
(* The temporary directories of builds that run side by side in one        *)
(* process: newTempFolder, newCommand, environment.Close.                  *)
(***************************************************************************)
\* the names os.MkdirTemp chooses from: "buildenv_<time>." and a random suffix
DirNames == 1..MaxDirs

\* mutant of TempNames: the directory is made under a name chosen without
\* looking at what exists (os.MkdirAll of a fixed pattern)
TempNamesMut(existing) == DirNames

\* newTempFolder: os.MkdirTemp(parentDir, "buildenv_<time>.") makes a new
\* directory; it retries with another suffix while the name exists
TempNames(existing) == DirNames \ existing

\* mutant of RemoveAll: os.Remove, which fails for a path that does not exist
RemoveAllMut(path, dirs, ok) ==
  IF path \in dirs /\ ok THEN [err |-> Nil, dirs |-> dirs \ {path}]
  ELSE [err |-> <<"remove">>, dirs |-> dirs]

\* os.RemoveAll(path) on the directories dirs: it removes path and what it
\* holds, returns nil when path does not exist, and fails when ok is FALSE
RemoveAll(path, dirs, ok) ==
  IF path \notin dirs THEN [err |-> Nil, dirs |-> dirs]
  ELSE IF ok THEN [err |-> Nil, dirs |-> dirs \ {path}]
  ELSE [err |-> <<"remove">>, dirs |-> dirs]

\* environment.Close
Close(env, dirs, ok) ==
  IF env.skipCleanup THEN [err |-> Nil, dirs |-> dirs]
  ELSE RemoveAll(env.tempFolder, dirs, ok)

\* newCommand: cmd.Dir = env.tempFolder
newCommandDir(env) == env.tempFolder

\* the builds of a process that runs MaxBuilds of them at once
ConcInit ==
  /\ NoBuild
  /\ NoMain
  /\ fnName = "newEnvironment"
  /\ fnIn = <<>>
  /\ fnOut = NoOut
  /\ tmpDirs = {}
  /\ builds \in [1..MaxBuilds ->
                  {[pc |-> "idle", tempFolder |-> 0, skipCleanup |-> sc,
                    cmdDirs |-> {}] : sc \in BOOLEAN}]

\* newEnvironment of build i: newTempFolder, then the environment is made
\* with tempFolder and skipCleanup
E_New ==
  /\ \E i \in DOMAIN builds :
       /\ builds[i].pc = "idle"
       /\ \E n \in TempNames(tmpDirs) :
            /\ tmpDirs' = tmpDirs \cup {n}
            /\ builds' = [builds EXCEPT ![i].pc = "open", ![i].tempFolder = n]
  /\ UNCHANGED <<buildVars, devVars, mainVars, fnName, fnIn, fnOut>>

\* build i makes a command with newCommand and runs it
E_Command ==
  /\ \E i \in DOMAIN builds :
       /\ builds[i].pc = "open"
       /\ builds' = [builds EXCEPT
                       ![i].cmdDirs = @ \cup {newCommandDir(builds[i])}]
  /\ UNCHANGED <<buildVars, devVars, mainVars, fnName, fnIn, fnOut, tmpDirs>>

\* newEnvironment of build i fails after the directory was made: the
\* deferred clean-up calls os.RemoveAll(tempFolder) when the variable err
\* is set (errSet)
E_Fail ==
  /\ \E i \in DOMAIN builds, ok \in BOOLEAN, errSet \in BOOLEAN :
       /\ builds[i].pc = "open"
       /\ tmpDirs' = IF errSet
                     THEN RemoveAll(builds[i].tempFolder, tmpDirs, ok).dirs
                     ELSE tmpDirs
       /\ builds' = [builds EXCEPT ![i].pc = "closed"]
  /\ UNCHANGED <<buildVars, devVars, mainVars, fnName, fnIn, fnOut>>

\* Build of build i returns: the deferred buildEnv.Close()
E_Close ==
  /\ \E i \in DOMAIN builds, ok \in BOOLEAN :
       /\ builds[i].pc = "open"
       /\ tmpDirs' = Close(builds[i], tmpDirs, ok).dirs
       /\ builds' = [builds EXCEPT ![i].pc = "closed"]
  /\ UNCHANGED <<buildVars, devVars, mainVars, fnName, fnIn, fnOut>>

(***************************************************************************)
(* environment.Close called several times on one environment.              *)
(***************************************************************************)
\* an environment and the directories that exist before the first call
CloseInputSet ==
  {[skipCleanup |-> sc, tempFolder |-> n, dirs |-> D] :
     sc \in BOOLEAN, n \in DirNames, D \in SUBSET DirNames}

CloseInit ==
  /\ NoBuild
  /\ NoConc
  /\ NoMain
  /\ fnName = "Close"
  /\ fnIn \in CloseInputSet
  /\ fnOut = NoOut

\* the directories that exist when Close is called next
DirsNow == IF fnOut.called THEN fnOut.val[Len(fnOut.val)].dirs ELSE fnIn.dirs

\* the results of the calls so far
CallsSoFar == IF fnOut.called THEN fnOut.val ELSE <<>>

\* env.Close() is called, for the first time or again
Call_Close ==
  /\ fnName = "Close"
  /\ Len(CallsSoFar) < MaxCloses
  /\ \E ok \in BOOLEAN :
       fnOut' = [called |-> TRUE,
                 val |-> Append(CallsSoFar, Close(fnIn, DirsNow, ok))]
  /\ UNCHANGED <<buildVars, concVars, mainVars, devVars, fnName, fnIn>>

(***************************************************************************)
(* Main and trapSignals (cmd/main.go).  Main makes the context, starts     *)
(* trapSignals as a goroutine and runs the command; the run starts when    *)
(* trapSignals has registered its channel with signal.Notify.              *)
(***************************************************************************)
MainInit ==
  /\ NoBuild
  /\ NoConc
  /\ fnName = "Main"
  /\ fnIn = <<>>
  /\ fnOut = NoOut
  /\ mainPc = "running"
  /\ mainCtxErr = Nil
  /\ trapPc = "select"
  /\ sig = 0
  /\ interrupts = 0
  /\ cancelCalls = 0

\* the process has not exited: its goroutines run
Alive == mainPc \in {"running", "returned"}

\* an interrupt signal reaches the process: the signal package sends it on
\* the channel sig without blocking, so that it is dropped when the one
\* place of the channel is taken
SigInt ==
  /\ Alive
  /\ interrupts < MaxInterrupts
  /\ interrupts' = interrupts + 1
  /\ sig' = 1
  /\ UNCHANGED <<buildVars, concVars, devVars, fnName, fnIn, fnOut, mainPc,
                 mainCtxErr, trapPc, cancelCalls>>

\* mutant of T_Sig: the handler goes back to its select after the cancel
T_SigMut ==
  /\ Alive
  /\ trapPc = "select"
  /\ sig = 1
  /\ sig' = 0
  /\ cancelCalls' = cancelCalls + 1
  /\ mainCtxErr' = IF mainCtxErr = Nil THEN <<"canceled">> ELSE mainCtxErr
  /\ trapPc' = "select"
  /\ UNCHANGED <<buildVars, concVars, devVars, fnName, fnIn, fnOut, mainPc,
                 interrupts>>

\* trapSignals, case <-sig: cancel() is called and the function returns
T_Sig ==
  /\ Alive
  /\ trapPc = "select"
  /\ sig = 1
  /\ sig' = 0
  /\ cancelCalls' = cancelCalls + 1
  /\ mainCtxErr' = IF mainCtxErr = Nil THEN <<"canceled">> ELSE mainCtxErr
  /\ trapPc' = "done"
  /\ UNCHANGED <<buildVars, concVars, devVars, fnName, fnIn, fnOut, mainPc,
                 interrupts>>

\* trapSignals, case <-ctx.Done(): return
T_Done ==
  /\ Alive
  /\ trapPc = "select"
  /\ mainCtxErr # Nil
  /\ trapPc' = "done"
  /\ UNCHANGED <<buildVars, concVars, devVars, fnName, fnIn, fnOut, mainPc,
                 mainCtxErr, sig, interrupts, cancelCalls>>

\* Main returns (the command has ended without error): the deferred cancel()
M_Return ==
  /\ mainPc = "running"
  /\ mainPc' = "returned"
  /\ mainCtxErr' = IF mainCtxErr = Nil THEN <<"canceled">> ELSE mainCtxErr
  /\ UNCHANGED <<buildVars, concVars, devVars, fnName, fnIn, fnOut, trapPc, sig,
                 interrupts, cancelCalls>>

\* log.Fatalf: the process exits without running the deferred cancel
M_Fatal ==
  /\ mainPc = "running"
  /\ mainPc' = "exited"
  /\ UNCHANGED <<buildVars, concVars, devVars, fnName, fnIn, fnOut, mainCtxErr,
                 trapPc, sig, interrupts, cancelCalls>>

\* the process exits after Main has returned
M_Exit ==
  /\ mainPc = "returned"
  /\ mainPc' = "exited"
  /\ UNCHANGED <<buildVars, concVars, devVars, fnName, fnIn, fnOut, mainCtxErr,
                 trapPc, sig, interrupts, cancelCalls>>

Init == BuildInit \/ UnitInit \/ DevInit \/ ConcInit \/ CloseInit \/ MainInit

Next ==
  \/ Interrupt
  \/ BuildDeadline
  \/ GetDeadline
  \/ ProcExit
  \/ ContextKill
  \/ ProcDie
  \/ SelectCmd
  \/ SelectCtx
  \/ GraceElapse
  \/ GraceTimeout
  \/ GraceCmd
  \/ B_Start
  \/ NE_Versions
  \/ NE_TempFolder
  \/ NE_WriteMain
  \/ NE_Embed
  \/ NE_Init
  \/ NE_InitRet
  \/ NE_Replace
  \/ NE_ReplaceRet
  \/ NE_Abort
  \/ NE_Core
  \/ NE_CoreRet
  \/ NE_Plugin
  \/ NE_PluginRet
  \/ NE_Final
  \/ NE_FinalRet
  \/ B_Windows
  \/ B_ListRet
  \/ B_SkipBuild
  \/ B_Tidy
  \/ B_TidyRet
  \/ B_Compile
  \/ B_CompileRet
  \/ Call_splitWith
  \/ Call_versionedModulePath
  \/ Call_normalizeImportPath
  \/ Call_editArgs
  \/ Call_parseGoListJson
  \/ Call_newGoBuildCommand
  \/ D_Build
  \/ D_Setcap
  \/ D_Start
  \/ D_Wait
  \/ E_New
  \/ E_Command
  \/ E_Fail
  \/ E_Close
  \/ Call_Close
  \/ SigInt
  \/ T_Sig
  \/ T_Done
  \/ M_Return
  \/ M_Fatal
  \/ M_Exit

Spec == Init /\ [][Next]_vars

(***************************************************************************)
(* Properties.                                                             *)
(***************************************************************************)
CtxErrors == {<<"canceled">>, <<"deadline">>}

\* Build has returned after newEnvironment failed
SetupFailed == pc = "done" /\ neRet.err # Nil

\* Build has returned after newEnvironment succeeded
BuiltWithEnv == pc = "done" /\ neRet.env

\* the positions of `started` that hold the pin command of plugin i
PinsOf(i) == {j \in 1..Len(started) : started[j].name = "get" /\ started[j].idx = i}

\* command j of `started` has ended
Ended(j) == j <= Len(finished) /\ finished[j] = started[j]

\* some Replace entry has an old path that is a prefix of the path
UnderReplaced(path) ==
  \E k \in 1..Len(b.Replacements) : HasPrefix(path, b.Replacements[k].Old)

\* C1: when the context becomes done while the subprocess runs, the
\* subprocess is not killed at that moment; Process.Kill is called for it
\* only by runCommand, once the 15-second grace window has expired.
C1_KillOnlyAfterGrace ==
  killSent # "none" => (killSent = "grace" /\ elapsed = GraceWindow)

\* C2: runCommand returns the result of cmd.Wait() when it returns through
\* the case that receives the subprocess's completion first; when it returns
\* through the case of the done context it returns ctx.Err(), whether the
\* subprocess ended within the grace window or the window expired.
C2_ReturnedError ==
  /\ rcBranch = "cmd" => rcRet = waitErr
  /\ rcBranch \in {"timer", "graceexit"} =>
       (rcRet = CtxErrOf(rcCtx) /\ rcRet \in CtxErrors)

\* the subprocess failed by itself within the grace window and runCommand
\* reported the cancellation
C2_Witness ==
  /\ rcBranch = "graceexit"
  /\ waitErr = <<"exit">>
  /\ rcRet = <<"canceled">>

\* C3: when newEnvironment fails after the temporary directory was created
\* and skip-cleanup is not set, the directory has been removed when the error
\* reaches the caller (no removal having failed).
C3_NoOrphanFolder ==
  (SetupFailed /\ tempFolder # "none" /\ ~b.SkipCleanup /\ ~rmFailed)
    => tempFolder = "removed"

C5_SkipCleanupKeepsFolder ==
  (pc = "done" /\ b.SkipCleanup /\ tempFolder # "none") => tempFolder = "exists"

\* newEnvironment is in its pinning phase (lines 458-494)
Pinning ==
  pc \in {"ne_core", "core_run", "core_ret", "ne_plugin", "plugin_run", "plugin_ret",
          "ne_final", "final_run", "final_ret"}

\* C6: a cancellation of the context passed to Build is observed by the
\* pinning phase in every configuration: while newEnvironment pins, the
\* context it pins with is done as soon as the caller's context is cancelled.
C6_PinningSeesCancel ==
  (Pinning /\ ctxErr.caller # Nil) => CtxDone(envCtx)

\* the position of a command of newEnvironment in the prescribed order
Rank(cmd) ==
  CASE cmd.name = "init" -> 1
    [] cmd.name = "edit" -> 2
    [] cmd.name = "get" /\ cmd.idx = 0 -> 3
    [] cmd.name = "get" /\ cmd.idx > 0 -> 3 + cmd.idx
    [] cmd.name = "get" /\ cmd.idx < 0 -> 4 + Len(b.Plugins)
    [] OTHER -> 5 + Len(b.Plugins)

\* C7: the commands of newEnvironment are started in the order module init,
\* replace edit (if there is a replacement), core pin, plugin pins in the
\* order of Builder.Plugins; a command is started only when every command
\* started before it has ended, a pin is started only after module init and,
\* if there is a replacement, the replace edit, and a plugin pin only after
\* the core pin.
C7_CommandOrder ==
  /\ \A i, j \in 1..Len(started) :
       (i < j /\ started[j].name \in {"init", "edit", "get"})
         => Rank(started[i]) < Rank(started[j])
  /\ \A j \in 1..Len(started) : \A i \in 1..(j - 1) : Ended(i)
  /\ \A j \in 1..Len(started) :
       started[j].name = "get" =>
         /\ \E i \in 1..(j - 1) : started[i].name = "init"
         /\ Len(b.Replacements) > 0 => \E i \in 1..(j - 1) : started[i].name = "edit"
         /\ started[j].idx # 0 =>
              \E i \in 1..(j - 1) : started[i].name = "get" /\ started[i].idx = 0

\* init, edit, the core pin and two plugin pins have been started
C7_Witness ==
  /\ Len(started) >= 5
  /\ started[2].name = "edit"
  /\ started[4].name = "get" /\ started[4].idx = 1
  /\ started[5].name = "get" /\ started[5].idx = 2

\* C8: no pin command is issued for a plugin whose package path has the old
\* path of a Replace entry as a prefix; when the setup has run to completion
\* every other plugin has got exactly one pin command.
C8_ReplacedNotPinned ==
  /\ \A j \in 1..Len(started) :
       (started[j].name = "get" /\ started[j].idx > 0) =>
         ~UnderReplaced(b.Plugins[started[j].idx].PackagePath)
  /\ neRet.env =>
       \A i \in 1..Len(b.Plugins) :
         ~UnderReplaced(b.Plugins[i].PackagePath) => Cardinality(PinsOf(i)) = 1

\* a completed setup that left out a plugin lying below a replaced path and
\* pinned another plugin
C8_Witness ==
  /\ neRet.env
  /\ \E i \in 1..Len(b.Plugins) :
       /\ UnderReplaced(b.Plugins[i].PackagePath)
       /\ \E k \in 1..Len(b.Replacements) :
            b.Replacements[k].Old # b.Plugins[i].PackagePath
       /\ PinsOf(i) = {}
  /\ \E i \in 1..Len(b.Plugins) : PinsOf(i) # {}

\* C9: for a plugin given as --with module@version=replacement no pin
\* command is issued.
C9_VersionedReplaceNotPinned ==
  \A i \in 1..Len(withArgs) :
    LET sw == splitWith(withArgs[i]) IN
    (sw.err = "nil" /\ sw.version # <<>> /\ sw.replace # <<>>) => PinsOf(i) = {}

\* C10: when a setup step fails and removing the temporary directory fails
\* too, the error the caller receives is the setup error composed with the
\* clean-up error.
C10_BothErrorsReturned ==
  (SetupFailed /\ rmFailed) =>
    (Len(neRet.err) = 2 /\ neRet.err[2] = "cleanup")

(***************************************************************************)
(* The arguments of the edit command.                                      *)
(***************************************************************************)
\* the distinct old paths of a list of Replace entries
OldPaths(repls) == {repls[i].Old : i \in 1..Len(repls)}

\* the new path of the last entry of the list whose old path is o
LastNew(repls, o) ==
  repls[CHOOSE i \in 1..Len(repls) :
          /\ repls[i].Old = o
          /\ \A j \in 1..Len(repls) : repls[j].Old = o => j <= i].New

\* the arguments that follow a "-replace"
Directives(args) == {args[2 * k] : k \in 1..(Len(args) \div 2)}

\* args is "-replace", "old=new" once per distinct old path of repls, with
\* the new path of the last entry for that old path
Collapsed(repls, args) ==
  /\ Len(args) = 2 * Cardinality(OldPaths(repls))
  /\ \A k \in 1..Len(args) : k % 2 = 1 => args[k] = ReplaceFlag
  /\ Directives(args) =
       {o \o <<"=">> \o LastNew(repls, o) : o \in OldPaths(repls)}

\* the list has two entries with the same old path and different new paths
HasOverwrite(repls) ==
  \E i, j \in 1..Len(repls) :
    i < j /\ repls[i].Old = repls[j].Old /\ repls[i].New # repls[j].New

\* C11: the edit command carries exactly one -replace argument per distinct
\* old path of the Replace entries, with the new path of the last entry for
\* that old path; with no Replace entry no edit command is run.
C11_ReplacementsCollapsed ==
  /\ \A j \in 1..Len(started) :
       started[j].name = "edit" => Collapsed(b.Replacements, started[j].args)
  /\ (b.Replacements = <<>>) =>
       \A j \in 1..Len(started) : started[j].name # "edit"
  /\ (fnName = "editArgs" /\ fnOut.called) => Collapsed(fnIn, fnOut.val)

\* an edit command was started for a list in which an old path occurs twice
\* with different new paths
C11_Witness ==
  /\ HasOverwrite(b.Replacements)
  /\ \E j \in 1..Len(started) :
       /\ started[j].name = "edit"
       /\ Len(started[j].args) < 2 * Len(b.Replacements)

\* C12: every replace directive handed to the edit command has, on both
\* sides, the first space of the ReplacementPath replaced by "@"
\* (ReplacementPath.Param); a path without a space is passed unchanged.
C12_DirectivesUseParam ==
  (fnName = "editArgs" /\ fnOut.called) =>
    Directives(fnOut.val) =
      {Param(o) \o <<"=">> \o Param(LastNew(fnIn, o)) : o \in OldPaths(fnIn)}

(***************************************************************************)
(* splitWith.                                                              *)
(***************************************************************************)
\* the index of the last c in s; 0 when absent
LastIndexChar(s, c) ==
  IF ContainsChar(s, c)
  THEN CHOOSE i \in 1..Len(s) : s[i] = c /\ \A j \in (i + 1)..Len(s) : s[j] # c
  ELSE 0

\* what precedes the first c in s; s when c is absent
BeforeFirst(s, c) ==
  IF ContainsChar(s, c) THEN SubSeq(s, 1, IndexChar(s, c) - 1) ELSE s

\* what follows the first c in s; empty when c is absent
AfterFirst(s, c) ==
  IF ContainsChar(s, c) THEN SubSeq(s, IndexChar(s, c) + 1, Len(s)) ELSE <<>>

\* splitWith has been applied to fnIn
SplitDone == fnName = "splitWith" /\ fnOut.called

\* C13: splitWith separates module from version at the last "@" of the part
\* before the replacement: the module is everything before that "@", the
\* version what follows it.
C13_SplitsAtLastAt ==
  SplitDone =>
    LET head == BeforeFirst(fnIn, "=")
        k == LastIndexChar(head, "@")
    IN (k > 1 /\ k < Len(head) /\ head[1] # "@") =>
         /\ fnOut.val.module = SubSeq(head, 1, k - 1)
         /\ fnOut.val.version = SubSeq(head, k + 1, Len(head))

\* the argument is m, m@v, m=r or m@v=r with m and v not empty and without
\* "@" and "="
WellFormedArg(arg) ==
  LET head == BeforeFirst(arg, "=") IN
  /\ BeforeFirst(head, "@") # <<>>
  /\ ~ContainsChar(AfterFirst(head, "@"), "@")
  /\ ContainsChar(head, "@") => AfterFirst(head, "@") # <<>>

\* C14: for m, m@v, m=r and m@v=r (m and v not empty and without "@" and
\* "=", r any text) splitWith returns m, v (empty when absent) and r
\* verbatim (empty when absent), without error.
C14_SplitWithParts ==
  (SplitDone /\ WellFormedArg(fnIn)) =>
    fnOut.val = [module |-> BeforeFirst(BeforeFirst(fnIn, "="), "@"),
                 version |-> AfterFirst(BeforeFirst(fnIn, "="), "@"),
                 replace |-> AfterFirst(fnIn, "="),
                 err |-> "nil"]

\* splitWith was applied to m@v=r with an r that holds both separators
C14_Witness ==
  /\ SplitDone
  /\ WellFormedArg(fnIn)
  /\ fnOut.val.version # <<>>
  /\ ContainsChar(fnOut.val.replace, "@")
  /\ ContainsChar(fnOut.val.replace, "=")

\* C15: splitWith returns the error "module name is required" exactly when
\* the module component is empty, that is for the empty string and for the
\* inputs that begin with "@" or "="; a bare module name gives no error.
C15_ModuleRequired ==
  SplitDone =>
    /\ (fnOut.val.err = "module name is required") <=>
         (Len(fnIn) = 0 \/ fnIn[1] \in {"@", "="})
    /\ (fnOut.val.err # "nil") <=> (fnOut.val.module = <<>>)
    /\ (Len(fnIn) > 0 /\ ~ContainsChar(fnIn, "@") /\ ~ContainsChar(fnIn, "="))
         => (fnOut.val.err = "nil" /\ fnOut.val.module = fnIn)

\* splitWith was applied to an input that begins with "@" and failed
C15_Witness ==
  /\ SplitDone
  /\ Len(fnIn) > 1
  /\ fnIn[1] = "@"
  /\ fnOut.val.err = "module name is required"

(***************************************************************************)
(* versionedModulePath.                                                    *)
(***************************************************************************)
\* a Go module path: elements separated by single "/", none empty, "." or
\* ".."
IsModulePath(p) ==
  /\ Len(p) > 0
  /\ \A i \in 1..Len(p) :
       /\ p[i] = "/" => (i > 1 /\ i < Len(p) /\ p[i + 1] # "/")
       /\ p[i] = "." =>
            ~(/\ (i = 1 \/ p[i - 1] = "/" \/ (p[i - 1] = "." /\ (i = 2 \/ p[i - 2] = "/")))
              /\ (i = Len(p) \/ p[i + 1] = "/"))

\* the path ends in /vN for some number N and has something before it
HasMajorSuffix(p) ==
  LET k == LastIndexChar(p, "/") IN
  /\ k > 1
  /\ Len(p) >= k + 2
  /\ p[k + 1] = "v"
  /\ AllDigits(SubSeq(p, k + 2, Len(p)))

\* the number N of the suffix /vN
SuffixMajor(p) == Atoi(SubSeq(p, LastIndexChar(p, "/") + 2, Len(p)))

\* the version as a strict semantic version, after dropping a leading "v"
SemVer(v) == StrictNewVersion(TrimPrefix(v, <<"v">>))

\* versionedModulePath has been applied to fnIn
VersionDone == fnName = "versionedModulePath" /\ fnOut.called

\* "v2.0.1"
V201 == <<"v", "2", ".", "0", ".", "1">>

\* the path the semantic-import-versioning rule gives for major number M
WithMajor(p, M) ==
  IF M >= 2 /\ ~HasMajorSuffix(p) THEN p \o <<"/", "v">> \o Itoa(M) ELSE p

\* the path has no /vN suffix, or its suffix is /vM
SuffixAgrees(p, M) ==
  ~HasMajorSuffix(p) \/ HasSuffix(p, <<"/", "v">> \o Itoa(M))

\* for core version v2.0.1 the core path of the manifest and of the core pin
\* ends in /v2
CorePathV2 ==
  (b.CaddyVersion = V201) =>
    /\ mainGo # <<>> =>
         mainGo[1].path = defaultCaddyModulePath \o <<"/", "v", "2">> \o CmdSuffix
    /\ \A j \in 1..Len(started) :
         (started[j].name = "get" /\ started[j].idx = 0) =>
           started[j].args[1] = defaultCaddyModulePath \o <<"/", "v", "2", "@">> \o V201

\* C16 as stated: for a version that parses as a strict semantic version with
\* major number M, versionedModulePath returns the module path with /vM
\* appended when M >= 2 and the path has no /vN suffix, the path without any
\* added suffix when M <= 1 and it has no /vN suffix, and the path as given
\* when it ends in /vM already; for core version v2.0.1 the core path of the
\* manifest and of the core pin ends in /v2.
C16_Original ==
  /\ (/\ VersionDone
      /\ SemVer(fnIn.moduleVersion).ok
      /\ SuffixAgrees(fnIn.modulePath, SemVer(fnIn.moduleVersion).major)) =>
       fnOut.val = [path |-> WithMajor(fnIn.modulePath, SemVer(fnIn.moduleVersion).major),
                    err |-> "nil"]
  /\ CorePathV2

\* C16: as C16_Original, with the result passed through path.Clean: it is the
\* path itself (with /vM appended when M >= 2 and there is no /vN suffix)
\* for a module path in clean form, and the cleaned form of that path
\* otherwise.
C16_MajorSuffix ==
  /\ (/\ VersionDone
      /\ SemVer(fnIn.moduleVersion).ok
      /\ SuffixAgrees(fnIn.modulePath, SemVer(fnIn.moduleVersion).major)) =>
       LET want == WithMajor(fnIn.modulePath, SemVer(fnIn.moduleVersion).major) IN
       /\ fnOut.val = [path |-> PathClean(want), err |-> "nil"]
       /\ IsModulePath(fnIn.modulePath) => fnOut.val.path = want
  /\ CorePathV2

\* versionedModulePath appended /vM to a module path without a suffix
C16_Witness ==
  /\ VersionDone
  /\ IsModulePath(fnIn.modulePath)
  /\ SemVer(fnIn.moduleVersion).ok
  /\ SemVer(fnIn.moduleVersion).major >= 2
  /\ ~HasMajorSuffix(fnIn.modulePath)
  /\ fnOut.val.err = "nil"

NormalizeDone == fnName = "normalizeImportPath" /\ fnOut.called

\* "/sub" and the same with a backslash
SlashSub == <<"/", "s", "u", "b">>
BackslashSub == <<"\\", "s", "u", "b">>

\* C18: for every module path M and directory D given with "/" separators,
\* normalizeImportPath(M, D, D) = M and
\* normalizeImportPath(M, D + "/sub", D) = M + "/sub".
C18_NormalizeSlash ==
  (/\ NormalizeDone
   /\ IsModulePath(fnIn.currentModule)
   /\ ~ContainsChar(fnIn.moduleDir, "\\")) =>
    /\ (fnIn.cwd = fnIn.moduleDir) => fnOut.val = fnIn.currentModule
    /\ (fnIn.cwd = fnIn.moduleDir \o SlashSub) =>
         fnOut.val = fnIn.currentModule \o SlashSub

\* normalizeImportPath was applied to a working directory below a module
\* root that is not empty
C18_Witness ==
  /\ NormalizeDone
  /\ IsModulePath(fnIn.currentModule)
  /\ Len(fnIn.moduleDir) > 1
  /\ ~ContainsChar(fnIn.moduleDir, "\\")
  /\ fnIn.cwd = fnIn.moduleDir \o SlashSub
  /\ fnOut.val = fnIn.currentModule \o SlashSub

\* C19: for a backslash-separated working directory below a
\* backslash-separated module root (c:\x\sub below c:\x) the result is
\* M + "/sub", on a host whose separator is "/" as on one whose separator
\* is "\".
C19_SeparatorIndependent ==
  (/\ NormalizeDone
   /\ IsModulePath(fnIn.currentModule)
   /\ ContainsChar(fnIn.moduleDir, "\\")
   /\ fnIn.cwd = fnIn.moduleDir \o BackslashSub) =>
    fnOut.val = fnIn.currentModule \o SlashSub

(***************************************************************************)
(* The manifest.                                                           *)
(***************************************************************************)
\* the import path of the plugin given by a --with argument
PluginPathOf(arg) ==
  versionedModulePath(TrimSuffix(splitWith(arg).module, <<"/">>),
                      splitWith(arg).version).path

\* C20: the manifest imports the cmd package of the core as caddycmd and
\* blank-imports the standard modules of the core, then one blank import
\* per plugin, in the order of the plugin list and with a path repeated as
\* often as the list repeats it; the output is determined by the core path
\* and the plugin list.  (The plugin list is b.Plugins; when the manifest
\* has just been rendered for the build command its paths are those of the
\* --with arguments.)
C20_ManifestImports ==
  mainGo # <<>> =>
    /\ Len(mainGo) = 2 + Len(b.Plugins)
    /\ devPc = "none" => Len(b.Plugins) = Len(withArgs)
    /\ mainGo[1] = [name |-> "caddycmd", path |-> caddyModulePath \o CmdSuffix]
    /\ mainGo[2] = [name |-> "_", path |-> caddyModulePath \o StandardSuffix]
    /\ \A i \in 1..Len(b.Plugins) :
         mainGo[2 + i] = [name |-> "_", path |-> b.Plugins[i].PackagePath]
    /\ (pc = "ne_temp" /\ devPc = "none") =>
         \A i \in 1..Len(withArgs) : mainGo[2 + i].path = PluginPathOf(withArgs[i])

\* a manifest was rendered and written for a plugin list that names one
\* path twice
C20_Witness ==
  /\ Len(mainGo) = 4
  /\ mainGo[3] = mainGo[4]
  /\ tempFolder = "exists"

(***************************************************************************)
(* Builder.Build: the output path, skip-build.                             *)
(***************************************************************************)
\* Build has been called (a build run, not a function applied on its own)
BuildRun == fnName = "none"

\* the error of Build for an empty output path
OutputRequired == <<"output file path is required">>

\* a tidy or compile command has been started
TidyOrCompileStarted ==
  \E j \in 1..Len(started) : started[j].name \in {"tidy", "build"}

\* C21: Build called with an empty output path returns an error at once and
\* without side effects: it does nothing but return, it returns the error
\* "output file path is required", no temporary directory is created and no
\* subprocess is started.
C21_EmptyOutputRejected ==
  (BuildRun /\ outputFile = <<>>) =>
    /\ pc \in {"build", "done"}
    /\ pc = "done" => buildRet = OutputRequired
    /\ tempFolder = "none"
    /\ started = <<>>
    /\ proc = "none"
    /\ closeCount = 0

\* Build has returned the error for an empty output path to a caller that
\* set a build timeout
C21_Witness ==
  /\ BuildRun
  /\ outputFile = <<>>
  /\ b.TimeoutBuild > 0
  /\ pc = "done"
  /\ buildRet = OutputRequired

\* C22 as stated: when skip-build is set and newEnvironment succeeds, Build
\* returns nil and never starts the tidy command or the compile command.
C22_Original ==
  (BuiltWithEnv /\ b.SkipBuild) => (buildRet = Nil /\ ~TidyOrCompileStarted)

\* C22 as amended: when skip-build is set, neither the tidy command nor the
\* compile command is ever started; once newEnvironment has succeeded Build
\* returns nil, except that for a windows target it returns the error of
\* `go list -m` or of the resource generation when one of them fails.
C22_SkipBuildStops ==
  (BuildRun /\ b.SkipBuild) =>
    /\ ~TidyOrCompileStarted
    /\ BuiltWithEnv =>
         \/ buildRet = Nil
         \/ /\ b.Windows
            /\ buildRet \in {rcRet, <<"resource">>}
    /\ (BuiltWithEnv /\ ~b.Windows) => buildRet = Nil

\* Build returned nil with skip-build set, after a completed setup that ran
\* at least the module init and the core pin
C22_Witness ==
  /\ BuiltWithEnv
  /\ b.SkipBuild
  /\ buildRet = Nil
  /\ Len(started) >= 2
  /\ ~TidyOrCompileStarted

\* C23: skip-build implies skip-cleanup: when skip-build is set and the
\* setup succeeded, the temporary directory with the manifest is still on
\* disk when Build returns, whether or not skip-cleanup is set as well.
C23_SkipBuildKeepsFolder ==
  (BuiltWithEnv /\ b.SkipBuild) => tempFolder = "exists"

(***************************************************************************)
(* The compile command.                                                    *)
(***************************************************************************)
\* the sequence of arguments has the argument
HasArg(args, a) == \E k \in 1..Len(args) : args[k] = a

\* the sequence of arguments has the arguments of flags next to each other
Carries(args, flags) ==
  \E k \in 0..(Len(args) - Len(flags)) :
    SubSeq(args, k + 1, k + Len(flags)) = flags

\* the compile commands started so far
Compiles == {j \in 1..Len(started) : started[j].name = "build"}

\* C24: whenever the race detector is enabled, the compile command runs
\* with CGO_ENABLED=1 and with -race, whether or not cgo was requested; when
\* it is disabled, CGO_ENABLED is 1 exactly when cgo was requested and -race
\* is absent.
C24_RaceForcesCgo ==
  \A j \in Compiles :
    /\ b.RaceDetector =>
         (started[j].env.CGO_ENABLED = "1" /\ HasArg(started[j].args, ArgRace))
    /\ ~b.RaceDetector =>
         /\ started[j].env.CGO_ENABLED = "1" <=> b.Cgo
         /\ started[j].env.CGO_ENABLED \in {"0", "1"}
         /\ ~HasArg(started[j].args, ArgRace)

\* a compile command was started for a Builder with the race detector
\* enabled and cgo not requested
C24_Witness ==
  /\ b.RaceDetector
  /\ ~b.Cgo
  /\ \E j \in Compiles : started[j].env.CGO_ENABLED = "1"

\* "go build -o <output>" followed by the configured build flags
CompileHead ==
  <<GetGo, ArgBuild, ArgO, FilepathAbs(outputFile)>>
    \o (IF ShlexSplit(b.BuildFlags).ok THEN ShlexSplit(b.BuildFlags).toks ELSE <<>>)

\* what follows them in the arguments
CompileTail(args) == SubSeq(args, Len(CompileHead) + 1, Len(args))

\* -ldflags "-w -s" -trimpath
TrimFlags == <<ArgLdflags, ArgTrim, ArgTrimpath>>

RetLabels ==
  {"init_ret", "edit_ret", "core_ret", "plugin_ret", "final_ret", "list_ret",
   "tidy_ret", "compile_ret"}

\* C26: when runCommand returns an error for a command of the build
\* sequence (it failed, could not be started or was cancelled), Build does
\* nothing but return and returns that error; a command runs only when the
\* command before it returned nil; the compile command is started only
\* directly after a tidy command that has ended and returned nil.
C26_ErrorsStopBuild ==
  BuildRun =>
    /\ rcRet # Nil => (rc = "idle" /\ pc \in RetLabels \cup {"done"})
    /\ (pc = "done" /\ rcRet # Nil) => buildRet = rcRet
    /\ \A j \in Compiles :
         /\ j > 1
         /\ started[j - 1].name = "tidy"
         /\ Ended(j - 1)

\* the tidy command failed: Build returned its error and no compile command
\* was started
C26_Witness ==
  /\ pc = "done"
  /\ Len(started) > 0
  /\ started[Len(started)].name = "tidy"
  /\ rcRet = <<"exit">>
  /\ buildRet = <<"exit">>

(***************************************************************************)
(* Plugin-development mode.                                                *)
(***************************************************************************)
\* C27: in plugin-development mode, once the build has succeeded and put
\* the binary in the current directory, the binary has been removed when
\* the command returns, on every path, unless skip-cleanup is set (or
\* os.Remove failed).
C27_BinaryRemoved ==
  (devPc = "done" /\ buildRet = Nil /\ binOutput # "none" /\ ~b.SkipCleanup)
    => binOutput \in {"removed", "undeletable"}

(***************************************************************************)
(* --with and --replace.                                                   *)
(***************************************************************************)
\* the old path of the Replace entry a --replace argument gives
ReplaceOld(arg) ==
  DependencyString([PackagePath |-> splitWith(arg).module,
                    Version |-> splitWith(arg).version])

\* the build command runs (buildCommand.RunE)
BuildCommandRun == BuildRun /\ devPc = "none"

\* C28: a module given through --replace only produces a replace
\* directive: the plugin list has one entry per --with argument, in order,
\* and none for a --replace argument, so the manifest has one blank import
\* per --with argument and every plugin pin is the pin of a --with module;
\* every --replace argument gives a Replace entry (seen when Build is
\* called) and a directive of the edit command (seen when it is started).
C28_ReplaceOnlyDirective ==
  BuildCommandRun =>
    /\ Len(b.Plugins) = Len(withArgs)
    /\ pc = "build" =>
         /\ \A i \in 1..Len(withArgs) :
              /\ b.Plugins[i].Version = splitWith(withArgs[i]).version
              /\ b.Plugins[i].PackagePath =
                   TrimSuffix(splitWith(withArgs[i]).module, <<"/">>)
         /\ \A k \in 1..Len(replaceArgs) :
              \E r \in 1..Len(b.Replacements) :
                b.Replacements[r].Old = ReplaceOld(replaceArgs[k])
    /\ mainGo # <<>> =>
         Cardinality({k \in 1..Len(mainGo) : mainGo[k].name = "_"}) = 1 + Len(withArgs)
    /\ \A j \in 1..Len(started) :
         started[j].name = "get" => started[j].idx <= Len(withArgs)
    /\ pc = "edit_run" =>
         \A k \in 1..Len(replaceArgs) :
           \E d \in Directives(rcCmd.args) :
             HasPrefix(d, ReplaceOld(replaceArgs[k]) \o <<"=">>)

\* a setup has completed for one --with argument and one --replace
\* argument: the edit command was run, the manifest has one plugin import
C28_Witness ==
  /\ BuildCommandRun
  /\ Len(withArgs) = 1
  /\ Len(replaceArgs) = 1
  /\ neRet.env
  /\ Len(mainGo) = 3
  /\ \E j \in 1..Len(started) : started[j].name = "edit"

(***************************************************************************)
(* parseGoListJson.                                                        *)
(***************************************************************************)
ParseDone == fnName = "parseGoListJson" /\ fnOut.called

\* the entries of the main module in the output
Mains(mods) == {i \in 1..Len(mods) : mods[i].Main}

\* the directory of the main module
MainDir(mods) == mods[CHOOSE i \in Mains(mods) : TRUE].Dir

\* what one entry of the output yields, dir being the directory of the
\* main module
Yield(mod, dir) ==
  IF mod.Main THEN <<[Old |-> mod.Path, New |-> mod.Dir]>>
  ELSE IF mod.Replace = <<>> THEN <<>>
  ELSE <<[Old |-> mod.Path \o <<"@">> \o mod.Version,
          New |-> IF mod.Replace[1].Version # <<>>
                  THEN mod.Replace[1].Path \o <<"@">> \o mod.Replace[1].Version
                  ELSE IF mod.Replace[1].Path[1] = "/" THEN mod.Replace[1].Path
                  ELSE PathClean(dir \o <<"/">> \o mod.Replace[1].Path)]>>

RECURSIVE Yields(_, _)
Yields(mods, dir) ==
  IF Len(mods) = 0 THEN <<>> ELSE Yield(Head(mods), dir) \o Yields(Tail(mods), dir)

GoBuildDone == fnName = "newGoBuildCommand" /\ fnOut.called

\* the build flags split with shell quoting; none when they are blank
FlagWords(flags) == IF ShlexSplit(flags).ok THEN ShlexSplit(flags).toks ELSE <<>>

\* C30: newGoBuildCommand builds the argument list go executable, go
\* subcommand, configured build flags, remaining arguments: the flags,
\* split with shell quoting, stand directly after the subcommand and before
\* the remaining arguments; without build flags the list is the go
\* executable followed by the given arguments.
C30_FlagsAfterSubcommand ==
  GoBuildDone =>
    /\ FlagWords(fnIn.buildFlags) = <<>> => fnOut.val = <<GetGo>> \o fnIn.args
    /\ Len(fnIn.args) > 0 =>
         fnOut.val = <<GetGo, Head(fnIn.args)>> \o FlagWords(fnIn.buildFlags)
                       \o Tail(fnIn.args)

(***************************************************************************)
(* The caller's Builder.                                                   *)
(***************************************************************************)
\* C31: Build does not modify the caller's configuration: every field of
\* the caller's Builder, the PackagePath and Version of every element of
\* Plugins included, keeps the value it had before the call.  (The fields
\* of b other than Plugins are those of the copy the value receiver makes;
\* the elements of b.Plugins are the caller's.)
C31_CallerUnchanged == [][b' = b]_vars

(***************************************************************************)
(* runCommand and its subprocess after the return.                         *)
(***************************************************************************)
\* runCommand is not running: it has returned or was never called
Returned == rc = "idle"

\* C35: the waiter goroutine started by runCommand always terminates: the
\* result it sends on the unbuffered channel is received on every path, so
\* that no waiter is blocked in the send once runCommand has returned
\* (cmdErrChan is local to runCommand: nothing receives from it after the
\* return).
C35_WaiterTerminates ==
  (BuildRun /\ Returned) => waiter # "sending"

\* C36: whenever the temporary directory has been removed, no subprocess
\* started by the build is still running in it: runCommand does not return
\* while its subprocess is alive.
C36_NoProcessInRemovedFolder ==
  (BuildRun /\ tempFolder = "removed") => proc # "running"

\* C37: no `go get` command issued by execGoGet receives an empty string as
\* an argument: not the core pin, not a plugin pin, not the final go get.
C37_NoEmptyArgument ==
  \A j \in 1..Len(started) :
    started[j].name = "get" =>
      \A k \in 1..Len(started[j].args) : started[j].args[k] # <<>>

(***************************************************************************)
(* The pinning loop and the replaced modules.                              *)
(***************************************************************************)
\* the path is a replaced old path or continues one at a "/" boundary
InsideReplaced(path) ==
  \E k \in 1..Len(b.Replacements) :
    \/ path = b.Replacements[k].Old
    \/ HasPrefix(path, b.Replacements[k].Old \o <<"/">>)

\* C38: a plugin is left out of pinning only when it lies inside a replaced
\* module, that is when its package path equals a replaced old path or
\* continues it at a "/" boundary; a plugin whose path merely shares leading
\* characters with a replaced path is still pinned.
C38_SkippedOnlyInsideReplaced ==
  (BuildRun /\ neRet.env) =>
    \A i \in 1..Len(b.Plugins) :
      PinsOf(i) = {} => InsideReplaced(b.Plugins[i].PackagePath)

(***************************************************************************)
(* versionedModulePath applied to its own result.                          *)
(***************************************************************************)
\* C39: versionedModulePath is idempotent in its path argument: when
\* versionedModulePath(p, v) gives q without error, versionedModulePath(q, v)
\* gives q without error.
C39_VersionedPathIdempotent ==
  (VersionDone /\ fnOut.val.err = "nil") =>
    versionedModulePath(fnOut.val.path, fnIn.moduleVersion)
      = [path |-> fnOut.val.path, err |-> "nil"]

(***************************************************************************)
(* Builds side by side; Close called again; trapSignals.                   *)
(***************************************************************************)
\* build i has an environment that is not closed
Open(i) == builds[i].pc = "open"

\* C32: two builds running concurrently in one process never use the same
\* temporary directory: each newEnvironment makes a directory of its own,
\* every command of a build runs in the directory of that build, and
\* closing the environment of one build does not remove the directory of
\* another, which therefore exists as long as its environment is open.
C32_OwnDirectory ==
  \A i \in DOMAIN builds :
    Open(i) =>
      /\ builds[i].tempFolder \in tmpDirs
      /\ builds[i].cmdDirs \subseteq {builds[i].tempFolder}
      /\ \A j \in DOMAIN builds \ {i} :
           Open(j) => builds[j].tempFolder # builds[i].tempFolder

\* one build has run a command and removed its directory while another
\* build, which has run a command too, is still open
C32_Witness ==
  \E i, j \in DOMAIN builds :
    /\ builds[i].pc = "closed"
    /\ builds[i].cmdDirs # {}
    /\ builds[i].tempFolder \notin tmpDirs
    /\ Open(j)
    /\ builds[j].cmdDirs # {}
    /\ builds[j].tempFolder # builds[i].tempFolder

\* Close has been called on one environment at least once
CloseDone == fnName = "Close" /\ fnOut.called

\* C33: environment.Close is idempotent: a second or later call made after
\* the temporary directory was removed returns no error and leaves the file
\* system as it was, that is as the first call left it when the first call
\* removed the directory.
C33_CloseIdempotent ==
  CloseDone =>
    \A k \in 2..Len(fnOut.val) :
      fnIn.tempFolder \notin fnOut.val[k - 1].dirs =>
        /\ fnOut.val[k].err = Nil
        /\ fnOut.val[k].dirs = fnOut.val[k - 1].dirs
        /\ fnIn.tempFolder \notin fnOut.val[1].dirs =>
             fnOut.val[k].dirs = fnOut.val[1].dirs

\* Close was called twice; the first call removed the directory and left
\* another one
C33_Witness ==
  /\ CloseDone
  /\ Len(fnOut.val) = 2
  /\ ~fnIn.skipCleanup
  /\ fnIn.tempFolder \in fnIn.dirs
  /\ fnIn.tempFolder \notin fnOut.val[1].dirs
  /\ fnOut.val[1].dirs # {}

\* trapSignals calls cancel at most once and has returned when it has
CancelsOnce ==
  /\ cancelCalls <= 1
  /\ cancelCalls = 1 => trapPc = "done"

\* C34 as stated: trapSignals cancels the context at most once: the first
\* interrupt triggers one cancel call after which the handler has
\* terminated, later interrupts cause no further cancel call, and once the
\* context has ended (by the handler's cancel or, first, by Main's) the
\* handler makes no cancel call.
C34_Original ==
  [][/\ CancelsOnce'
     /\ mainCtxErr # Nil => cancelCalls' = cancelCalls]_vars

\* C34: trapSignals cancels the context at most once: the first interrupt
\* it receives triggers one cancel call after which the handler has
\* terminated, later interrupts cause no further cancel call, and when the
\* context has ended first the handler makes no cancel call unless an
\* interrupt is waiting in its channel: then the select may take either
\* case, and the handler calls cancel once on the ended context.
C34_CancelOnce ==
  [][/\ CancelsOnce'
     /\ trapPc = "done" => cancelCalls' = cancelCalls
     /\ (mainCtxErr # Nil /\ sig = 0) => cancelCalls' = cancelCalls]_vars

\* the handler has cancelled and returned, and a later interrupt has come
C34_Witness ==
  /\ cancelCalls = 1
  /\ trapPc = "done"
  /\ interrupts = 2
  /\ sig = 1

====
